---- MODULE Spec2Model ----
(***************************************************************************)
(* romu: ROM catalog.  Model of the scanner (internal/scanner), the        *)
(* catalog store (internal/db) and the enrich command (cmd/romu).          *)
(*                                                                         *)
(* Text is modelled as a sequence of one-character strings so that         *)
(* strings.ToLower, filepath.Ext, filepath.Base and SQL LIKE are computed  *)
(* character by character.  SQL NULL is the token Null, which is no text.  *)
(***************************************************************************)
EXTENDS Integers, Sequences, FiniteSets, TLC

VARIABLES disk, romFiles, games, last, nops

vars == <<disk, romFiles, games, last, nops>>

----------------------------------------------------------------------------
(* Bounds of the model *)

MaxContent == 2     \* distinct file contents 1..MaxContent
MaxGames == 4       \* cap on rows of the games table
MaxOps == 4         \* cap on operations in one behaviour
MaxFail == 3        \* statements of a transaction that may fail: 1..MaxFail

----------------------------------------------------------------------------
(* Text helpers *)

Null == <<"NULL">>
Empty == <<>>

IsEmptyText(t) == t = Null \/ t = Empty

UpperToLower ==
  [c \in {"A","B","C","D","E","F","G","H","I","J","K","L","M","N","O","P",
          "Q","R","S","T","U","V","W","X","Y","Z"} |->
     CASE c = "A" -> "a" [] c = "B" -> "b" [] c = "C" -> "c" [] c = "D" -> "d"
       [] c = "E" -> "e" [] c = "F" -> "f" [] c = "G" -> "g" [] c = "H" -> "h"
       [] c = "I" -> "i" [] c = "J" -> "j" [] c = "K" -> "k" [] c = "L" -> "l"
       [] c = "M" -> "m" [] c = "N" -> "n" [] c = "O" -> "o" [] c = "P" -> "p"
       [] c = "Q" -> "q" [] c = "R" -> "r" [] c = "S" -> "s" [] c = "T" -> "t"
       [] c = "U" -> "u" [] c = "V" -> "v" [] c = "W" -> "w" [] c = "X" -> "x"
       [] c = "Y" -> "y" [] c = "Z" -> "z"]

LowerChar(c) == IF c \in DOMAIN UpperToLower THEN UpperToLower[c] ELSE c

\* strings.ToLower
ToLower(t) == [i \in 1..Len(t) |-> LowerChar(t[i])]

\* strings.LastIndex(t, ch), 1-based, 0 when absent
LastIndexOf(t, ch) ==
  LET hits == {i \in 1..Len(t) : t[i] = ch}
  IN IF hits = {} THEN 0 ELSE CHOOSE i \in hits : \A j \in hits : j <= i

\* strings.Index(t, ch), 1-based, 0 when absent
IndexOf(t, ch) ==
  LET hits == {i \in 1..Len(t) : t[i] = ch}
  IN IF hits = {} THEN 0 ELSE CHOOSE i \in hits : \A j \in hits : i <= j

\* filepath.Ext: the suffix starting at the last dot, empty when none
Ext(name) ==
  LET d == LastIndexOf(name, ".")
  IN IF d = 0 THEN Empty ELSE SubSeq(name, d, Len(name))

HasSuffix(t, s) == Len(s) <= Len(t) /\ SubSeq(t, Len(t) - Len(s) + 1, Len(t)) = s

\* strings.TrimSuffix
TrimSuffix(t, s) == IF HasSuffix(t, s) THEN SubSeq(t, 1, Len(t) - Len(s)) ELSE t

----------------------------------------------------------------------------
(* internal/scanner: platform tables *)

platformFolders ==
  { << <<"f","c">>, "FC" >>, << <<"n","e","s">>, "FC" >>,
    << <<"s","f","c">>, "SFC" >>, << <<"s","n","e","s">>, "SFC" >>,
    << <<"g","b">>, "GB" >>, << <<"g","b","c">>, "GBC" >>,
    << <<"g","b","a">>, "GBA" >>,
    << <<"m","d">>, "MD" >>, << <<"g","e","n","e","s","i","s">>, "MD" >>,
    << <<"m","e","g","a","d","r","i","v","e">>, "MD" >>,
    << <<"p","s","1">>, "PS1" >>, << <<"p","s","x">>, "PS1" >>,
    << <<"n","6","4">>, "N64" >>, << <<"n","d","s">>, "NDS" >>,
    << <<"p","c","e">>, "PCE" >>,
    << <<"p","c","e","n","g","i","n","e">>, "PCE" >>,
    << <<"p","c","e","n","g","i","n","e","c","d">>, "PCE" >>,
    << <<"m","s","x">>, "MSX" >>, << <<"g","g">>, "GG" >>,
    << <<"s","m","s">>, "SMS" >>, << <<"w","s">>, "WS" >>,
    << <<"w","o","n","d","e","r","s","w","a","n">>, "WS" >>,
    << <<"w","s","c">>, "WSC" >>,
    << <<"w","o","n","d","e","r","s","w","a","n","c","o","l","o","r">>, "WSC" >>,
    << <<"n","g","p">>, "NGP" >>, << <<"p","c","f","x">>, "PCFX" >>,
    << <<"n","e","o","g","e","o">>, "NEOGEO" >>,
    << <<"p","i","c","o","8">>, "PICO8" >>, << <<"p","s","2">>, "PS2" >>,
    << <<"s","e","g","a","s","a","t","u","r","n">>, "SS" >>,
    << <<"a","r","c","a","d","e">>, "ARCADE" >> }

\* platformFolders[name], "" when the key is absent
FolderPlatform(name) ==
  IF \E e \in platformFolders : e[1] = name
  THEN (CHOOSE e \in platformFolders : e[1] = name)[2]
  ELSE ""

dotNes == <<".","n","e","s">>
dotBin == <<".","b","i","n">>
dotZip == <<".","z","i","p">>
dotMd == <<".","m","d">>
dotGen == <<".","g","e","n">>
dotCue == <<".","c","u","e">>
dotImg == <<".","i","m","g">>
dotIso == <<".","i","s","o">>

\* the rows of platformExtensions for the platforms the fixture reaches
platformExtensions ==
  [p \in {"FC", "MD", "PS1", "NEOGEO", "ARCADE"} |->
     CASE p = "FC" -> {dotNes}
       [] p = "MD" -> {dotMd, dotBin, dotGen}
       [] p = "PS1" -> {dotBin, dotCue, dotImg, dotIso}
       [] p = "NEOGEO" -> {dotZip}
       [] p = "ARCADE" -> {dotZip}]

zipIsRomPlatforms == {"NEOGEO", "ARCADE"}

isValidExtension(platform, ext) ==
  IF platform \notin DOMAIN platformExtensions
  THEN TRUE
  ELSE ext \in platformExtensions[platform]

\* a path is a sequence of components; root is a prefix of path
IsUnder(root, path) ==
  Len(root) < Len(path) /\ SubSeq(path, 1, Len(root)) = root

Base(path) == path[Len(path)]

\* detectPlatform that lets the deepest recognized component win
RECURSIVE firstPlatform_Deepest(_)
firstPlatform_Deepest(parts) ==
  IF parts = <<>> THEN ""
  ELSE LET deeper == firstPlatform_Deepest(Tail(parts))
       IN IF deeper # "" THEN deeper
          ELSE FolderPlatform(ToLower(Head(parts)))

RECURSIVE firstPlatform(_)
firstPlatform(parts) ==
  IF parts = <<>> THEN ""
  ELSE LET p == FolderPlatform(ToLower(Head(parts)))
       IN IF p # "" THEN p ELSE firstPlatform(Tail(parts))

detectPlatform(root, path) ==
  LET p == FolderPlatform(ToLower(Base(root)))
  IN IF p # "" THEN p
     ELSE firstPlatform(SubSeq(path, Len(root) + 1, Len(path)))

----------------------------------------------------------------------------
(* The file tree that is scanned.  Files are listed in filepath.Walk        *)
(* (lexical) order; a leaf names the byte content that disk holds for it.   *)

cR == <<"r">>
cFc == <<"f","c">>
cMd == <<"m","d">>
cPs1 == <<"p","s","1">>
cMisc == <<"m","i","s","c">>
cNeogeo == <<"n","e","o","g","e","o">>
nGzip == <<"g",".","z","i","p">>
nKzip == <<"k",".","z","i","p">>
nBbin == <<"b",".","b","i","n">>
nUnes == <<"u",".","n","e","s">>
nXnes == <<"x",".","n","e","s">>
nYnes == <<"y",".","n","e","s">>
nNtxt == <<"n",".","t","x","t">>
nDir == <<"d","/">>
nSzip == <<"s",".","z","i","p">>
nSnes == <<"s",".","n","e","s">>
nRbin == <<"r","o","m",".","b","i","n">>

pathG == <<cR, cFc, nGzip>>
pathS == <<cR, cFc, nSzip>>
pathY == <<cR, cFc, nYnes>>
pathB == <<cR, cMd, cPs1, nBbin>>
pathU == <<cR, cMisc, nUnes>>
pathK == <<cR, cNeogeo, nKzip>>

Files ==
  << [path |-> pathG, leaf |-> "g",
      entries |-> << [name |-> nDir, dir |-> TRUE, leaf |-> "g"],
                     [name |-> nNtxt, dir |-> FALSE, leaf |-> "g"],
                     [name |-> nXnes, dir |-> FALSE, leaf |-> "gx"],
                     [name |-> nYnes, dir |-> FALSE, leaf |-> "gy"] >>],
     [path |-> pathS, leaf |-> "s",
      entries |-> << [name |-> nSnes, dir |-> FALSE, leaf |-> "sn"] >>],
     [path |-> pathY, leaf |-> "y", entries |-> <<>>],
     [path |-> pathB, leaf |-> "b", entries |-> <<>>],
     [path |-> pathU, leaf |-> "u", entries |-> <<>>],
     [path |-> pathK, leaf |-> "k",
      entries |-> << [name |-> nRbin, dir |-> FALSE, leaf |-> "kr"] >>] >>

Leaves == {"g", "gx", "gy", "s", "sn", "y", "b", "u", "k", "kr"}

\* the leaves a write may change
Writable == {"y", "b"}

Roots == { <<cR>>, <<cR, cMd, cPs1>> }

Contents == 1..MaxContent

InitDisk ==
  [l \in Leaves |-> IF l \in {"gy", "s", "y", "kr"} THEN 2 ELSE 1]

(* hashFile / hashZipEntry: the three digests of a byte content, upper-case *)
(* hex in the code, here one token per content and per algorithm.          *)
Crc32Of(c) == <<"C", ToString(c)>>
Md5Of(c) == <<"M", ToString(c)>>
Sha1Of(c) == <<"S", ToString(c)>>
SizeOf(c) == 16 * c

----------------------------------------------------------------------------
(* internal/db: rom_files *)

NoGame == 0

RomIndex(rf, path) ==
  IF \E i \in 1..Len(rf) : rf[i].path = path
  THEN CHOOSE i \in 1..Len(rf) : rf[i].path = path
  ELSE 0

NewRomFile(path, filename, size, crc32, md5, sha1, platform) ==
  [path |-> path, filename |-> filename, size |-> size, hash_crc32 |-> crc32,
   hash_md5 |-> md5, hash_sha1 |-> sha1, platform |-> platform,
   game_id |-> NoGame]

\* UpsertRomFile written as INSERT OR REPLACE: the conflicting row is replaced
\* whole, its game_id with it
UpsertRomFile_ReplacesRow(rf, path, filename, size, crc32, md5, sha1, platform) ==
  LET i == RomIndex(rf, path)
      row == NewRomFile(path, filename, size, crc32, md5, sha1, platform)
  IN IF i = 0 THEN Append(rf, row) ELSE [rf EXCEPT ![i] = row]

\* UpsertRomFile written as a plain INSERT into a table without the unique key
UpsertRomFile_AlwaysInserts(rf, path, filename, size, crc32, md5, sha1, platform) ==
  Append(rf, NewRomFile(path, filename, size, crc32, md5, sha1, platform))

\* INSERT ... ON CONFLICT(path) DO UPDATE SET filename, size, hashes, platform
UpsertRomFile(rf, path, filename, size, crc32, md5, sha1, platform) ==
  LET i == RomIndex(rf, path)
  IN IF i = 0
     THEN Append(rf, NewRomFile(path, filename, size, crc32, md5, sha1,
                                platform))
     ELSE [rf EXCEPT ![i] = [@ EXCEPT !.filename = filename, !.size = size,
                                      !.hash_crc32 = crc32, !.hash_md5 = md5,
                                      !.hash_sha1 = sha1,
                                      !.platform = platform]]

----------------------------------------------------------------------------
(* internal/scanner: Scan.  A scan state is the rom_files table, the       *)
(* Result tallies, the number of UpsertRomFile calls made so far and the   *)
(* number of the call that fails (0: none does).                           *)

ZeroResult == [Scanned |-> 0, Added |-> 0, Skipped |-> 0, Errors |-> 0]

(* What disk holds for a leaf that cannot be read: Unreadable makes         *)
(* os.Open, zip.OpenReader or the copy into the hashes fail, NoStat makes   *)
(* filepath.Walk hand the callback an error for the file.                   *)
Unreadable == 0
NoStat == -1

ScanState(rf, fail) == [rf |-> rf, res |-> ZeroResult, n |-> 0, fail |-> fail]

\* the hash of a file and its upsert, with the empty hashes stored when the
\* hash fails
hashAndStore_StoresUnhashed(st, path, filename, c, platform) ==
  IF c < 1
  THEN [st EXCEPT !.res.Scanned = @ + 1, !.res.Errors = @ + 1,
                  !.rf = UpsertRomFile(@, path, filename, 0, <<>>, <<>>, <<>>,
                                       platform)]
  ELSE [st EXCEPT !.res.Scanned = @ + 1, !.res.Added = @ + 1, !.n = @ + 1,
                  !.rf = UpsertRomFile(@, path, filename, SizeOf(c), Crc32Of(c),
                                       Md5Of(c), Sha1Of(c), platform)]

\* result.Scanned++, hashFile or hashZipEntry, UpsertRomFile, result.Added++:
\* a failed hash and a failed upsert add to result.Errors and store nothing
hashAndStore(st, path, filename, c, platform) ==
  IF c < 1
  THEN [st EXCEPT !.res.Scanned = @ + 1, !.res.Errors = @ + 1]
  ELSE IF st.n + 1 = st.fail
  THEN [st EXCEPT !.res.Scanned = @ + 1, !.res.Errors = @ + 1, !.n = @ + 1]
  ELSE [st EXCEPT !.res.Scanned = @ + 1, !.res.Added = @ + 1, !.n = @ + 1,
                  !.rf = UpsertRomFile(@, path, filename, SizeOf(c), Crc32Of(c),
                                       Md5Of(c), Sha1Of(c), platform)]

RECURSIVE zipLoop(_, _, _, _, _, _)
zipLoop(entries, zipPath, platform, dk, st, found) ==
  IF entries = <<>> THEN [st |-> st, found |-> found]
  ELSE
    LET f == Head(entries)
        ext == ToLower(Ext(f.name))
        displayName == Base(zipPath) \o <<"/">> \o f.name
    IN IF f.dir \/ ~isValidExtension(platform, ext)
       THEN zipLoop(Tail(entries), zipPath, platform, dk, st, found)
       ELSE zipLoop(Tail(entries), zipPath, platform, dk,
                    hashAndStore(st, zipPath, displayName, dk[f.leaf], platform),
                    TRUE)

\* scanZipContents that catalogs the archive itself, as for a zip-is-rom platform
scanZipContents_WholeArchive(file, platform, dk, st) ==
  [st |-> hashAndStore(st, file.path, Base(file.path), dk[file.leaf], platform),
   found |-> TRUE]

\* zip.OpenReader, then the entries
scanZipContents(file, platform, dk, st) ==
  IF dk[file.leaf] < 1
  THEN [st |-> [st EXCEPT !.res.Errors = @ + 1], found |-> FALSE]
  ELSE zipLoop(file.entries, file.path, platform, dk, st, FALSE)

\* the callback of filepath.Walk for one regular file
walkFile(root, file, dk, st) ==
  LET platform == detectPlatform(root, file.path)
      ext == ToLower(Ext(Base(file.path)))
      skipped == [st EXCEPT !.res.Skipped = @ + 1]
      hashed == hashAndStore(st, file.path, Base(file.path), dk[file.leaf],
                             platform)
  IN IF dk[file.leaf] = NoStat THEN [st EXCEPT !.res.Errors = @ + 1]
     ELSE IF platform = "" THEN skipped
     ELSE IF ext = dotZip
     THEN IF platform \in zipIsRomPlatforms
          THEN IF ~isValidExtension(platform, dotZip) THEN skipped ELSE hashed
          ELSE LET z == scanZipContents(file, platform, dk, st)
               IN IF z.found THEN z.st
                  ELSE [z.st EXCEPT !.res.Skipped = @ + 1]
     ELSE IF ~isValidExtension(platform, ext) THEN skipped
     ELSE hashed

RECURSIVE walk(_, _, _, _)
walk(root, files, dk, st) ==
  IF files = <<>> THEN st
  ELSE walk(root, Tail(files), dk,
            IF IsUnder(root, Head(files).path)
            THEN walkFile(root, Head(files), dk, st)
            ELSE st)

\* os.Stat(root) and info.IsDir() over the tree
IsDir(root) == \E k \in 1..Len(Files) : IsUnder(root, Files[k].path)

\* Scan with the upsert of number fail failing: an error only for a root
\* that is no directory, else the tallies of the completed walk
ScanFaulty(root, dk, rf, fail) ==
  IF ~IsDir(root)
  THEN [rf |-> rf, res |-> ZeroResult, err |-> TRUE]
  ELSE LET st == walk(root, Files, dk, ScanState(rf, fail))
       IN [rf |-> st.rf, res |-> st.res, err |-> FALSE]

ScanResult(root, dk, rf) == ScanFaulty(root, dk, rf, 0)

----------------------------------------------------------------------------
(* internal/db: games *)

\* SQL equality: a comparison with NULL is never true
SqlEq(a, b) == a # Null /\ b # Null /\ a = b

\* COALESCE(NULLIF(?, ''), col)
CoalesceNullif(param, col) == IF param # Empty THEN param ELSE col

\* INSERT INTO games (title_en, platform)
DatGame(titleEN, platform) ==
  [title_en |-> titleEN, title_ja |-> Null, description_ja |-> Null,
   platform |-> platform, developer |-> Null, publisher |-> Null,
   release_date |-> Null, genre |-> Null, players |-> Null, rating |-> Null]

\* SELECT id FROM games WHERE title_en = ? AND platform = ?  (first row, 0 = none)
FindByTitleEN(gs, titleEN, platform) ==
  LET hits == {i \in 1..Len(gs) :
                 SqlEq(gs[i].title_en, titleEN) /\ gs[i].platform = platform}
  IN IF hits = {} THEN 0 ELSE CHOOSE i \in hits : \A j \in hits : i <= j

\* FindByTitleJA that never finds a row
FindByTitleJA_NoRows(gs, titleJA, platform) == 0

\* SELECT id FROM games WHERE title_ja = ? AND platform = ?
FindByTitleJA(gs, titleJA, platform) ==
  LET hits == {i \in 1..Len(gs) :
                 SqlEq(gs[i].title_ja, titleJA) /\ gs[i].platform = platform}
  IN IF hits = {} THEN 0 ELSE CHOOSE i \in hits : \A j \in hits : i <= j

(* Statements of one transaction are numbered as they are issued; the     *)
(* statement numbered fail returns an error and has no effect (fail = 0:   *)
(* every statement succeeds). st.n is the number of statements issued.     *)
Tick(st) == [st EXCEPT !.n = @ + 1]
Faulty(st, fail) == st.n + 1 = fail

\* ImportDATGames whose insert is not preceded by the SELECT probe
importOne_NoProbe(st, r, fail) ==
  [Tick(st) EXCEPT !.games = Append(@, DatGame(r.GameTitle, r.Platform)),
                   !.count = @ + 1]

\* ImportDATGames that counts every rom entry, inserted or found
importOne_CountsEntries(st, r, fail) ==
  IF FindByTitleEN(st.games, r.GameTitle, r.Platform) = 0
  THEN [Tick(Tick(st)) EXCEPT !.games = Append(@, DatGame(r.GameTitle, r.Platform)),
                              !.count = @ + 1]
  ELSE [Tick(st) EXCEPT !.count = @ + 1]

\* the body of the loop of ImportDATGames for one rom entry
importOne(st, r, fail) ==
  LET s1 == Tick(st)      \* SELECT id FROM games WHERE title_en = ? AND platform = ?
  IN IF Faulty(st, fail) THEN [s1 EXCEPT !.err = TRUE]
     ELSE IF FindByTitleEN(st.games, r.GameTitle, r.Platform) # 0 THEN s1
     ELSE IF Faulty(s1, fail) THEN [Tick(s1) EXCEPT !.err = TRUE]
     ELSE [Tick(s1) EXCEPT !.games = Append(@, DatGame(r.GameTitle, r.Platform)),
                           !.count = @ + 1]

(* ImportDATGames: one transaction over the batch; an error returns 0 and  *)
(* the deferred Rollback discards the inserts made so far                  *)
RECURSIVE importLoop(_, _, _)
importLoop(roms, st, fail) ==
  IF roms = <<>> \/ st.err THEN st
  ELSE importLoop(Tail(roms), importOne(st, Head(roms), fail), fail)

ImportDATGames(gs, roms, fail) ==
  LET st == importLoop(roms, [games |-> gs, count |-> 0, n |-> 0, err |-> FALSE],
                       fail)
  IN IF st.err THEN [games |-> gs, count |-> 0, err |-> TRUE, fault |-> TRUE]
     ELSE [games |-> st.games, count |-> st.count, err |-> FALSE,
           fault |-> FALSE]

----------------------------------------------------------------------------
(* SQL LIKE as SQLite evaluates it: % is any run of characters, _ is any   *)
(* one character, and letters compare without regard to ASCII case.        *)

RECURSIVE Like(_, _)
Like(text, pat) ==
  IF pat = <<>> THEN text = <<>>
  ELSE IF Head(pat) = "%"
  THEN Like(text, Tail(pat)) \/ (text # <<>> /\ Like(Tail(text), pat))
  ELSE IF text = <<>> THEN FALSE
  ELSE (Head(pat) = "_" \/ LowerChar(Head(pat)) = LowerChar(Head(text)))
       /\ Like(Tail(text), Tail(pat))

\* GameListRomIDs without "platform = ? AND"
GameListRomIDs_AnyPlatform(rf, filename, platform) ==
  {i \in 1..Len(rf) :
     \/ rf[i].filename = filename
     \/ Like(rf[i].filename, <<"%", "/">> \o filename)
     \/ Like(rf[i].filename, filename \o <<"/", "%">>)}

\* WHERE platform = ? AND (filename = ? OR filename LIKE '%/'+F OR filename LIKE F+'/%')
GameListRomIDs(rf, filename, platform) ==
  {i \in 1..Len(rf) :
     /\ rf[i].platform = platform
     /\ \/ rf[i].filename = filename
        \/ Like(rf[i].filename, <<"%", "/">> \o filename)
        \/ Like(rf[i].filename, filename \o <<"/", "%">>)}

\* INSERT INTO games (title_ja, platform, description_ja, ..., rating)
GameListGame(e, platform) ==
  [title_en |-> Null, title_ja |-> e.Name, description_ja |-> e.Desc,
   platform |-> platform, developer |-> e.Developer,
   publisher |-> e.Publisher, release_date |-> e.ReleaseDate,
   genre |-> e.Genre, players |-> e.Players, rating |-> e.Rating]

\* UPDATE games SET description_ja=COALESCE(NULLIF(?, ''), description_ja), ...
GameListUpdate(g, e) ==
  [g EXCEPT !.description_ja = CoalesceNullif(e.Desc, @),
            !.developer = CoalesceNullif(e.Developer, @),
            !.publisher = CoalesceNullif(e.Publisher, @),
            !.release_date = CoalesceNullif(e.ReleaseDate, @),
            !.genre = CoalesceNullif(e.Genre, @),
            !.players = CoalesceNullif(e.Players, @),
            !.rating = CoalesceNullif(e.Rating, @)]

\* LinkAll whose update carries "AND game_id IS NULL"
LinkAll_OnlyUnlinked(rf, ids, gameID) ==
  [i \in 1..Len(rf) |->
     IF i \in ids /\ rf[i].game_id = NoGame
     THEN [rf[i] EXCEPT !.game_id = gameID]
     ELSE rf[i]]

\* UPDATE rom_files SET game_id = ? WHERE id = ?, for every id of ids
LinkAll(rf, ids, gameID) ==
  [i \in 1..Len(rf) |-> IF i \in ids THEN [rf[i] EXCEPT !.game_id = gameID]
                                     ELSE rf[i]]

\* the body of the loop of MatchByGameList for one entry
gameListEntry(st, e, platform, fail) ==
  LET s1 == Tick(st)      \* SELECT id FROM rom_files WHERE platform = ? AND (...)
      romIDs == GameListRomIDs(st.rf, e.Filename, platform)
      \* SELECT id FROM games WHERE title_ja = ? AND platform = ?: any error
      \* of the statement takes the insert branch
      found == IF Faulty(s1, fail) THEN 0
               ELSE FindByTitleJA(st.games, e.Name, platform)
      s2 == Tick(s1)
      \* INSERT INTO games, or UPDATE games whose error is dropped
      gs == IF found = 0 THEN Append(st.games, GameListGame(e, platform))
            ELSE IF Faulty(s2, fail) THEN st.games
            ELSE [st.games EXCEPT ![found] = GameListUpdate(@, e)]
      gameID == IF found = 0 THEN Len(st.games) + 1 ELSE found
      s3 == Tick(s2)
      \* UPDATE rom_files SET game_id = ? WHERE id = ?, once for each rom id
      links == Cardinality(romIDs)
  IN IF Faulty(st, fail) THEN [s1 EXCEPT !.err = TRUE]
     ELSE IF romIDs = {} THEN s1
     ELSE IF found = 0 /\ Faulty(s2, fail) THEN [s3 EXCEPT !.err = TRUE]
     ELSE IF fail > s3.n /\ fail <= s3.n + links
     THEN [s3 EXCEPT !.n = fail, !.err = TRUE]
     ELSE [rf |-> LinkAll(st.rf, romIDs, gameID), games |-> gs,
           created |-> st.created + (IF found = 0 THEN 1 ELSE 0),
           matched |-> st.matched + links,
           n |-> s3.n + links, err |-> FALSE]

RECURSIVE gameListLoop(_, _, _, _)
gameListLoop(entries, platform, st, fail) ==
  IF entries = <<>> \/ st.err THEN st
  ELSE gameListLoop(Tail(entries), platform,
                    gameListEntry(st, Head(entries), platform, fail), fail)

\* MatchByGameList whose links are written outside the transaction: an error
\* rolls the games back and keeps the links made so far
MatchByGameList_KeepsLinks(rf, gs, entries, platform, fail) ==
  LET st == gameListLoop(entries, platform,
                         [rf |-> rf, games |-> gs, created |-> 0, matched |-> 0,
                          n |-> 0, err |-> FALSE], fail)
  IN IF st.err
     THEN [rf |-> st.rf, games |-> gs, created |-> 0, matched |-> 0,
           err |-> TRUE, fault |-> TRUE]
     ELSE [rf |-> st.rf, games |-> st.games, created |-> st.created,
           matched |-> st.matched, err |-> FALSE,
           fault |-> fail # 0 /\ fail <= st.n]

(* MatchByGameList: one transaction over the entries; an error returns     *)
(* 0, 0 and the deferred Rollback discards the changes made so far         *)
MatchByGameList(rf, gs, entries, platform, fail) ==
  LET st == gameListLoop(entries, platform,
                         [rf |-> rf, games |-> gs, created |-> 0, matched |-> 0,
                          n |-> 0, err |-> FALSE], fail)
  IN IF st.err
     THEN [rf |-> rf, games |-> gs, created |-> 0, matched |-> 0,
           err |-> TRUE, fault |-> TRUE]
     ELSE [rf |-> st.rf, games |-> st.games, created |-> st.created,
           matched |-> st.matched, err |-> FALSE,
           fault |-> fail # 0 /\ fail <= st.n]

----------------------------------------------------------------------------
(* MatchROMs *)

\* HashChoice with the priority reversed: CRC32 > MD5 > SHA1
HashChoice_CrcFirst(dr) ==
  IF dr.CRC32 # Empty THEN [col |-> "hash_crc32", val |-> dr.CRC32]
  ELSE IF dr.MD5 # Empty THEN [col |-> "hash_md5", val |-> dr.MD5]
  ELSE IF dr.SHA1 # Empty THEN [col |-> "hash_sha1", val |-> dr.SHA1]
  ELSE [col |-> "", val |-> Empty]

\* the hash chosen for a DAT rom: SHA1 > MD5 > CRC32; col "" when none
HashChoice(dr) ==
  IF dr.SHA1 # Empty THEN [col |-> "hash_sha1", val |-> dr.SHA1]
  ELSE IF dr.MD5 # Empty THEN [col |-> "hash_md5", val |-> dr.MD5]
  ELSE IF dr.CRC32 # Empty THEN [col |-> "hash_crc32", val |-> dr.CRC32]
  ELSE [col |-> "", val |-> Empty]

\* SELECT id, game_id FROM rom_files WHERE <col> = ?
HashMatches(rf, dr) ==
  LET h == HashChoice(dr)
  IN IF h.col = "" THEN {}
     ELSE {i \in 1..Len(rf) : rf[i][h.col] = h.val}

\* the linked branch of romMatch: UPDATE games SET title_en = ? WHERE id = ?
\* AND (title_en IS NULL OR title_en = ''); its error is dropped
romTitle(st, dr, gameID, fail) ==
  [Tick(st) EXCEPT !.games[gameID].title_en =
                      IF IsEmptyText(@) /\ ~Faulty(st, fail) THEN dr.GameTitle
                      ELSE @,
                   !.matched = @ + 1]

\* SELECT id FROM games WHERE title_en = ? AND platform = ? as romMatch reads
\* it: any error of the statement takes the insert branch
romProbe(st, dr, fail) ==
  IF Faulty(st, fail) THEN 0
  ELSE FindByTitleEN(st.games, dr.GameTitle, dr.Platform)

\* romMatch without its UPDATE rom_files: the game is found or created but
\* the rom file is never linked
romMatch_NoLink(st, dr, i, gameID, fail) ==
  IF gameID # NoGame THEN romTitle(st, dr, gameID, fail)
  ELSE [Tick(st) EXCEPT !.games = IF romProbe(st, dr, fail) = 0
                                  THEN Append(@, DatGame(dr.GameTitle, dr.Platform))
                                  ELSE @,
                        !.matched = @ + 1]

\* romMatch whose title update lacks "AND (title_en IS NULL OR title_en = '')"
romMatch_SetsTitle(st, dr, i, gameID, fail) ==
  IF gameID # NoGame
  THEN [Tick(st) EXCEPT !.games[gameID].title_en = dr.GameTitle,
                        !.matched = @ + 1]
  ELSE LET found == romProbe(st, dr, fail)
       IN [Tick(st) EXCEPT
             !.rf[i].game_id = IF found = 0 THEN Len(st.games) + 1 ELSE found,
             !.games = IF found = 0
                       THEN Append(@, DatGame(dr.GameTitle, dr.Platform))
                       ELSE @,
             !.matched = @ + 1]

\* romMatch that links a rom file only to a game it has just inserted
romMatch_LinkOnlyOnCreate(st, dr, i, gameID, fail) ==
  IF gameID # NoGame THEN romTitle(st, dr, gameID, fail)
  ELSE IF romProbe(st, dr, fail) = 0
  THEN [Tick(st) EXCEPT !.rf[i].game_id = Len(st.games) + 1,
                        !.games = Append(@, DatGame(dr.GameTitle, dr.Platform)),
                        !.matched = @ + 1]
  ELSE [Tick(st) EXCEPT !.matched = @ + 1]

\* romMatch that counts only the rom files it links
romMatch_CountsLinksMade(st, dr, i, gameID, fail) ==
  IF gameID # NoGame
  THEN [romTitle(st, dr, gameID, fail) EXCEPT !.matched = @ - 1]
  ELSE LET found == romProbe(st, dr, fail)
       IN [Tick(st) EXCEPT
             !.rf[i].game_id = IF found = 0 THEN Len(st.games) + 1 ELSE found,
             !.games = IF found = 0
                       THEN Append(@, DatGame(dr.GameTitle, dr.Platform))
                       ELSE @,
             !.matched = @ + 1]

\* one element of matches: rm.id = i with the game_id read by the query
romMatch(st, dr, i, gameID, fail) ==
  IF gameID # NoGame THEN romTitle(st, dr, gameID, fail)
  ELSE LET found == romProbe(st, dr, fail)
           s1 == Tick(st)
           \* INSERT INTO games (title_en, platform): on error, continue
           s2 == IF found # 0 THEN s1
                 ELSE [Tick(s1) EXCEPT
                         !.games = Append(@, DatGame(dr.GameTitle, dr.Platform))]
           gid == IF found = 0 THEN Len(st.games) + 1 ELSE found
       IN IF found = 0 /\ Faulty(s1, fail) THEN Tick(s1)
          \* UPDATE rom_files SET game_id = ? WHERE id = ?; its error is dropped
          ELSE [Tick(s2) EXCEPT
                  !.rf[i].game_id = IF Faulty(s2, fail) THEN @ ELSE gid,
                  !.matched = @ + 1]

\* for _, rm := range matches, in rowid order from index i
RECURSIVE romMatchLoop(_, _, _, _, _, _)
romMatchLoop(st, dr, ids, queried, i, fail) ==
  IF i > Len(queried) THEN st
  ELSE romMatchLoop(IF i \in ids
                    THEN romMatch(st, dr, i, queried[i].game_id, fail)
                    ELSE st,
                    dr, ids, queried, i + 1, fail)

\* for _, dr := range datRoms: a rom with no hash issues no statement, and a
\* failed hash query skips the rom
RECURSIVE matchLoop(_, _, _)
matchLoop(datRoms, st, fail) ==
  IF datRoms = <<>> THEN st
  ELSE LET dr == Head(datRoms)
           ids == HashMatches(st.rf, dr)
       IN matchLoop(Tail(datRoms),
                    IF HashChoice(dr).col = "" THEN st
                    ELSE IF Faulty(st, fail) THEN Tick(st)
                    ELSE romMatchLoop(Tick(st), dr, ids, st.rf, 1, fail),
                    fail)

(* MatchROMs: no statement's error leaves the loop, so the transaction is  *)
(* committed with whatever the other statements did                        *)
MatchROMs(rf, gs, datRoms, fail) ==
  LET st == matchLoop(datRoms, [rf |-> rf, games |-> gs, matched |-> 0,
                                n |-> 0], fail)
  IN [rf |-> st.rf, games |-> st.games, matched |-> st.matched,
      err |-> FALSE, fault |-> fail # 0 /\ fail <= st.n]

----------------------------------------------------------------------------
(* internal/gamedb: the embedded reference table, platform -> title -> entry *)

tT1 == <<"T","1">>
tT2 == <<"T","2">>
tG == <<"g">>
tJ1 == <<"J","1">>
tJ2 == <<"J","2">>
tN1 == <<"N","1">>
tN2 == <<"N","2">>
tA == <<"a">>
tB == <<"b">>

GameDB ==
  { [platform |-> "FC", title |-> tT1,
     entry |-> [TitleJA |-> tJ1, DescJA |-> tB, Developer |-> Empty,
                Publisher |-> tB, ReleaseDate |-> Empty, Genre |-> tB,
                Players |-> Empty]],
    [platform |-> "FC", title |-> tG,
     entry |-> [TitleJA |-> tJ2, DescJA |-> tA, Developer |-> tA,
                Publisher |-> Empty, ReleaseDate |-> tA, Genre |-> Empty,
                Players |-> tA]] }

NoEntry == [TitleJA |-> Null]

\* platform codes are stored upper-case; strings.ToUpper leaves them as they are
Lookup(platform, titleEN) ==
  IF \E r \in GameDB : r.platform = platform /\ r.title = titleEN
  THEN (CHOOSE r \in GameDB : r.platform = platform /\ r.title = titleEN).entry
  ELSE NoEntry

\* UpdateGameMetadata that also writes the gamedb title over title_en
UpdateGameMetadata_SetsTitleEN(g, titleJA, descJA, developer, publisher, releaseDate, genre, players) ==
  [g EXCEPT !.title_en = CoalesceNullif(titleJA, @),
            !.title_ja = CoalesceNullif(titleJA, @),
            !.description_ja = CoalesceNullif(descJA, @),
            !.developer = CoalesceNullif(developer, @),
            !.publisher = CoalesceNullif(publisher, @),
            !.release_date = CoalesceNullif(releaseDate, @),
            !.genre = CoalesceNullif(genre, @),
            !.players = CoalesceNullif(players, @)]

\* UPDATE games SET title_ja = COALESCE(NULLIF(?, ''), title_ja), ...
UpdateGameMetadata(g, titleJA, descJA, developer, publisher, releaseDate, genre, players) ==
  [g EXCEPT !.title_ja = CoalesceNullif(titleJA, @),
            !.description_ja = CoalesceNullif(descJA, @),
            !.developer = CoalesceNullif(developer, @),
            !.publisher = CoalesceNullif(publisher, @),
            !.release_date = CoalesceNullif(releaseDate, @),
            !.genre = CoalesceNullif(genre, @),
            !.players = CoalesceNullif(players, @)]

\* GetEnrichableRoms: the games with a title_en that some rom file (of the
\* platform, when one is given) links to, each with the platform of its
\* first linking rom file
EnrichableRow(rf, gs, platform, g) ==
  LET rows == {i \in 1..Len(rf) :
                 /\ rf[i].game_id = g
                 /\ ~IsEmptyText(gs[g].title_en)
                 /\ (platform = "" \/ rf[i].platform = platform)}
  IN IF rows = {} THEN 0 ELSE CHOOSE i \in rows : \A j \in rows : i <= j

RECURSIVE enrichLoop(_, _, _, _)
enrichLoop(rf, gs, platform, g) ==
  IF g > Len(gs) THEN gs
  ELSE LET row == EnrichableRow(rf, gs, platform, g)
           entry == IF row = 0 THEN NoEntry
                    ELSE Lookup(rf[row].platform, gs[g].title_en)
       IN enrichLoop(rf,
            IF entry = NoEntry THEN gs
            ELSE [gs EXCEPT ![g] =
                    UpdateGameMetadata(@, entry.TitleJA, entry.DescJA,
                      entry.Developer, entry.Publisher, entry.ReleaseDate,
                      entry.Genre, entry.Players)],
            platform, g + 1)

romExtensions ==
  << dotZip, <<".","7","z">>, dotNes, <<".","s","f","c">>, <<".","s","m","c">>,
     <<".","g","b">>, <<".","g","b","c">>, <<".","g","b","a">>, dotMd, dotBin,
     <<".","p","c","e">>, <<".","w","s">>, <<".","w","s","c">>,
     <<".","n","6","4">>, <<".","z","6","4">>, <<".","v","6","4">>,
     <<".","n","d","s">> >>

RECURSIVE stripExtensions(_, _)
stripExtensions(title, exts) ==
  IF exts = <<>> THEN title
  ELSE stripExtensions(TrimSuffix(title, Head(exts)), Tail(exts))

\* the title cmdEnrich derives from a display filename
filenameTitle(filename) ==
  LET idx == LastIndexOf(filename, "/")
  IN stripExtensions(SubSeq(filename, idx + 1, Len(filename)), romExtensions)

zipTitle(filename) ==
  LET idx == IndexOf(filename, "/")
      z == IF idx > 0 THEN SubSeq(filename, 1, idx - 1) ELSE filename
  IN TrimSuffix(TrimSuffix(z, dotZip), <<".","7","z">>)

\* INSERT INTO games (title_en, platform, title_ja, ..., players); link the rom
CreateGameAndLink(st, romID, titleEN, platform, e) ==
  [rf |-> [st.rf EXCEPT ![romID].game_id = Len(st.games) + 1],
   games |-> Append(st.games,
     [title_en |-> titleEN, title_ja |-> e.TitleJA,
      description_ja |-> e.DescJA, platform |-> platform,
      developer |-> e.Developer, publisher |-> e.Publisher,
      release_date |-> e.ReleaseDate, genre |-> e.Genre,
      players |-> e.Players, rating |-> Null])]

\* the second loop of cmdEnrich over GetUnmatchedRoms, read before the loop
RECURSIVE unmatchedLoop(_, _, _, _)
unmatchedLoop(st, unmatched, platform, i) ==
  IF i > Len(unmatched) THEN st
  ELSE LET ur == unmatched[i]
           title == filenameTitle(ur.filename)
           e1 == Lookup(ur.platform, title)
           e2 == Lookup(ur.platform, zipTitle(ur.filename))
           isUnmatched == ur.game_id = NoGame
                          /\ (platform = "" \/ ur.platform = platform)
       IN unmatchedLoop(
            IF ~isUnmatched \/ (e1 = NoEntry /\ e2 = NoEntry) THEN st
            ELSE IF e1 # NoEntry
            THEN CreateGameAndLink(st, i, title, ur.platform, e1)
            ELSE CreateGameAndLink(st, i, zipTitle(ur.filename), ur.platform, e2),
            unmatched, platform, i + 1)

cmdEnrich(rf, gs, platform) ==
  LET gs1 == enrichLoop(rf, gs, platform, 1)
  IN unmatchedLoop([rf |-> rf, games |-> gs1], rf, platform, 1)

----------------------------------------------------------------------------
(* Inputs of the operations *)

\* a DAT rom as ParseDAT returns it: upper-case hashes, one platform per file
DatRom(title, sha1, md5, crc32) ==
  [GameTitle |-> title, Platform |-> "FC", CRC32 |-> crc32, MD5 |-> md5,
   SHA1 |-> sha1, Size |-> 0]

dFull2 == DatRom(tT1, Sha1Of(2), Md5Of(2), Crc32Of(2))
dFull1 == DatRom(tT1, Sha1Of(1), Md5Of(1), Crc32Of(1))
dMd5 == DatRom(tT2, Empty, Md5Of(2), Crc32Of(1))
dCrc == DatRom(Empty, Empty, Empty, Crc32Of(1))
dNone == DatRom(tT2, Empty, Empty, Empty)
dG == DatRom(tG, Sha1Of(1), Empty, Empty)

DATRoms == {dFull2, dFull1, dMd5, dCrc, dNone, dG}

\* the parsed DAT files handed to import-dat and to match
DatFiles ==
  { <<dFull2>>, <<dFull2, dMd5>>,
    <<dCrc, dNone>>, <<dFull2, dFull1>>, <<dG>> }

GameListEntry(filename, name, v, genre) ==
  [Filename |-> filename, Name |-> name, Desc |-> v, ReleaseDate |-> v,
   Developer |-> v, Publisher |-> v, Genre |-> genre, Players |-> v,
   Rating |-> v]

eZip == GameListEntry(nGzip, tN1, tA, tA)
eNes == GameListEntry(nYnes, tN1, tB, Empty)
eNes2 == GameListEntry(nYnes, tN2, Empty, tB)
eK == GameListEntry(nKzip, tN1, tA, Empty)

GameListEntries == {eZip, eNes, eNes2, eK}

\* the parsed gamelist.xml files, each with the platform of its folder
GameLists ==
  { [entries |-> <<eZip>>, platform |-> "FC"],
    [entries |-> <<eNes>>, platform |-> "FC"],
    [entries |-> <<eZip, eNes2, eK>>, platform |-> "FC"],
    [entries |-> <<eK>>, platform |-> "NEOGEO"] }

----------------------------------------------------------------------------
(* The state machine *)

Catalog == [rf |-> romFiles, games |-> games]

\* what the last command was, the catalog it started from, what it returned,
\* whether it returned an error and whether a statement of it failed
Done(op, arg, ret, err, fault) ==
  [op |-> op, arg |-> arg, pre |-> Catalog, ret |-> ret, err |-> err,
   fault |-> fault]

Init ==
  /\ disk = InitDisk
  /\ romFiles = <<>>
  /\ games = <<>>
  /\ last = [op |-> "Open", arg |-> <<>>, pre |-> [rf |-> <<>>, games |-> <<>>],
             ret |-> <<>>, err |-> FALSE, fault |-> FALSE]
  /\ nops = 0

\* a file of the tree is overwritten with other bytes
WriteFile(l, c) ==
  /\ nops < MaxOps
  /\ disk[l] # c
  /\ disk' = [disk EXCEPT ![l] = c]
  /\ last' = Done("WriteFile", l, <<>>, FALSE, FALSE)
  /\ nops' = nops + 1
  /\ UNCHANGED <<romFiles, games>>

\* romu scan <root>
Scan(root) ==
  /\ nops < MaxOps
  /\ \E r \in {ScanResult(root, disk, romFiles)} :
        /\ romFiles' = r.rf
        /\ last' = Done("Scan", root, r.res, FALSE, FALSE)
  /\ nops' = nops + 1
  /\ UNCHANGED <<disk, games>>

\* romu import-dat <dat-file>
ImportDAT(roms, fail) ==
  /\ nops < MaxOps
  /\ \E r \in {ImportDATGames(games, roms, fail)} :
        /\ Len(r.games) <= MaxGames
        /\ games' = r.games
        /\ last' = Done("ImportDAT", roms, r.count, r.err, r.fault)
  /\ nops' = nops + 1
  /\ UNCHANGED <<disk, romFiles>>

\* romu match <dat-file>
Match(roms, fail) ==
  /\ nops < MaxOps
  /\ \E r \in {MatchROMs(romFiles, games, roms, fail)} :
        /\ Len(r.games) <= MaxGames
        /\ romFiles' = r.rf
        /\ games' = r.games
        /\ last' = Done("Match", roms, r.matched, r.err, r.fault)
  /\ nops' = nops + 1
  /\ UNCHANGED disk

\* romu import-gamelist: MatchByGameList for the gamelist.xml of one platform
ImportGameList(gl, fail) ==
  /\ nops < MaxOps
  /\ \E r \in {MatchByGameList(romFiles, games, gl.entries, gl.platform, fail)} :
        /\ Len(r.games) <= MaxGames
        /\ romFiles' = r.rf
        /\ games' = r.games
        /\ last' = Done("ImportGameList", gl,
                        [created |-> r.created, matched |-> r.matched],
                        r.err, r.fault)
  /\ nops' = nops + 1
  /\ UNCHANGED disk

\* romu enrich [--platform XX]
Enrich(platform) ==
  /\ nops < MaxOps
  /\ \E r \in {cmdEnrich(romFiles, games, platform)} :
        /\ Len(r.games) <= MaxGames
        /\ romFiles' = r.rf
        /\ games' = r.games
        /\ last' = Done("Enrich", platform, <<>>, FALSE, FALSE)
  /\ nops' = nops + 1
  /\ UNCHANGED disk

\* the commands over a store whose statements all succeed
Next ==
  \/ \E l \in Writable, c \in Contents : WriteFile(l, c)
  \/ \E root \in Roots : Scan(root)
  \/ \E roms \in DatFiles : ImportDAT(roms, 0)
  \/ \E roms \in DatFiles : Match(roms, 0)
  \/ \E gl \in GameLists : ImportGameList(gl, 0)
  \/ \E p \in {"FC"} : Enrich(p)

\* the statement of a transaction that fails
Faults == 1..MaxFail

\* the commands over a store in which one statement of a transaction may fail
NextFault ==
  \/ Next
  \/ \E roms \in DatFiles, fail \in Faults : ImportDAT(roms, fail)
  \/ \E roms \in DatFiles, fail \in Faults : Match(roms, fail)
  \/ \E gl \in GameLists, fail \in Faults : ImportGameList(gl, fail)

Spec == Init /\ [][Next]_vars

FaultSpec == Init /\ [][NextFault]_vars

----------------------------------------------------------------------------
(* Properties *)

Pre == last.pre

\* the last command was op and every statement of it succeeded
Ran(op) == last.op = op /\ ~last.fault

RomsAt(rf, path) == {i \in 1..Len(rf) : rf[i].path = path}

\* the entries of a container that scanZipContents catalogs for a platform
QualifyingEntries(file, platform) ==
  {k \in 1..Len(file.entries) :
     /\ ~file.entries[k].dir
     /\ isValidExtension(platform, ToLower(Ext(file.entries[k].name)))}

CarrierFiles(root) ==
  {k \in 1..Len(Files) :
     /\ IsUnder(root, Files[k].path)
     /\ ToLower(Ext(Base(Files[k].path))) = dotZip
     /\ detectPlatform(root, Files[k].path) # ""
     /\ detectPlatform(root, Files[k].path) \notin zipIsRomPlatforms}

\* C1: after a scan into an empty catalog, a carrier container with N >= 2
\* qualifying entries has N FileRecords, one for each qualifying entry.
C1_OneRecordPerEntry ==
  (last.op = "Scan" /\ Pre.rf = <<>>) =>
    \A k \in CarrierFiles(last.arg) :
      LET file == Files[k]
          q == QualifyingEntries(file, detectPlatform(last.arg, file.path))
      IN Cardinality(q) >= 2 =>
           /\ Cardinality(RomsAt(romFiles, file.path)) = Cardinality(q)
           /\ \A e \in q : \E i \in RomsAt(romFiles, file.path) :
                romFiles[i].filename
                  = Base(file.path) \o <<"/">> \o file.entries[e].name

GameListFields ==
  {"description_ja", "developer", "publisher", "release_date", "genre",
   "players", "rating"}

\* C2: a metadata-list match leaves every populated descriptive field of an
\* existing GameRecord as it was.
C2_GameListKeepsPopulated ==
  Ran("ImportGameList") =>
    \A g \in 1..Len(Pre.games) : \A f \in GameListFields :
      ~IsEmptyText(Pre.games[g][f]) => games[g][f] = Pre.games[g][f]

EnrichFields ==
  {"title_ja", "description_ja", "developer", "publisher", "release_date",
   "genre", "players"}

\* C3: enrichment leaves every non-empty field of an existing GameRecord as
\* it was.
C3_EnrichKeepsPopulated ==
  last.op = "Enrich" =>
    \A g \in 1..Len(Pre.games) : \A f \in EnrichFields :
      ~IsEmptyText(Pre.games[g][f]) => games[g][f] = Pre.games[g][f]

\* C4: a scan leaves the game link of every existing FileRecord as it was,
\* and a FileRecord it creates has no game link.
C4_ScanKeepsLinks ==
  last.op = "Scan" =>
    \A i \in 1..Len(romFiles) :
      LET old == RomsAt(Pre.rf, romFiles[i].path)
      IN IF old = {} THEN romFiles[i].game_id = NoGame
         ELSE \A j \in old : romFiles[i].game_id = Pre.rf[j].game_id

\* a scan has refreshed a linked FileRecord whose content and platform changed
C4_Witness ==
  /\ last.op = "Scan"
  /\ \E i \in 1..Len(Pre.rf) :
       /\ Pre.rf[i].game_id # NoGame
       /\ romFiles[i].path = Pre.rf[i].path
       /\ romFiles[i].hash_sha1 # Pre.rf[i].hash_sha1
       /\ romFiles[i].platform # Pre.rf[i].platform

HashFields == {"hash_crc32", "hash_md5", "hash_sha1", "size", "platform"}

\* C5: scanning the root just scanned again, the files unchanged, leaves the
\* number of FileRecords and the hashes, size and platform of each the same.
C5_RescanIdempotent ==
  last.op = "Scan" =>
    LET again == ScanResult(last.arg, disk, romFiles).rf
    IN /\ Len(again) = Len(romFiles)
       /\ \A i \in 1..Len(romFiles) :
            /\ again[i].path = romFiles[i].path
            /\ \A f \in HashFields : again[i][f] = romFiles[i][f]

\* the scan that just ran was itself a re-scan of catalogued, unchanged files
C5_Witness ==
  /\ last.op = "Scan"
  /\ Len(romFiles) >= 2
  /\ romFiles = Pre.rf
  /\ \A k \in 1..Len(Files) :
       IsUnder(last.arg, Files[k].path) /\ Files[k].leaf # "u"
         => RomsAt(Pre.rf, Files[k].path) # {}

----------------------------------------------------------------------------
(* Hash-based match *)

Arg == last.arg

Linked(rf) == {i \in 1..Len(rf) : rf[i].game_id # NoGame}

\* the catalog when record k of the batch of the last Match is about to be
\* processed, and when it has been processed
BeforeRecord(k) ==
  IF k = 1 THEN Pre ELSE MatchROMs(Pre.rf, Pre.games, SubSeq(Arg, 1, k - 1), 0)

AfterRecord(k) ==
  IF k = Len(Arg) THEN Catalog ELSE MatchROMs(Pre.rf, Pre.games, SubSeq(Arg, 1, k), 0)

\* C6: a DAT rom with a SHA1 links every FileRecord of that SHA1 that is
\* unlinked when the rom is processed to a game with the rom's title and
\* platform; matching the same batch again creates no game and changes no link.
C6_HashMatchLinksOnce ==
  Ran("Match") =>
    /\ \A k \in 1..Len(Arg) : \A i \in 1..Len(Pre.rf) :
         ( /\ Arg[k].SHA1 # Empty
           /\ BeforeRecord(k).rf[i].hash_sha1 = Arg[k].SHA1
           /\ BeforeRecord(k).rf[i].game_id = NoGame )
         => LET after == AfterRecord(k)
                g == after.rf[i].game_id
            IN /\ g # NoGame
               /\ after.games[g].title_en = Arg[k].GameTitle
               /\ after.games[g].platform = Arg[k].Platform
    /\ LET again == MatchROMs(romFiles, games, Arg, 0)
       IN /\ Len(again.games) = Len(games)
          /\ \A i \in 1..Len(romFiles) :
               again.rf[i].game_id = romFiles[i].game_id

\* a match has linked an unlinked FileRecord by SHA1 to a game it created
C6_Witness ==
  /\ Ran("Match")
  /\ Len(games) > Len(Pre.games)
  /\ \E i \in 1..Len(Pre.rf) :
       /\ Arg[1].SHA1 # Empty
       /\ Pre.rf[i].hash_sha1 = Arg[1].SHA1
       /\ Pre.rf[i].game_id = NoGame
       /\ romFiles[i].game_id # NoGame

\* the FileRecords a DAT rom matches, by the first of SHA1, MD5, CRC32 it has
Hits(rf, dr) ==
  {i \in 1..Len(rf) :
     IF dr.SHA1 # Empty THEN rf[i].hash_sha1 = dr.SHA1
     ELSE IF dr.MD5 # Empty THEN rf[i].hash_md5 = dr.MD5
     ELSE IF dr.CRC32 # Empty THEN rf[i].hash_crc32 = dr.CRC32
     ELSE FALSE}

RECURSIVE CountHits(_, _)
CountHits(rf, roms) ==
  IF roms = <<>> THEN 0
  ELSE Cardinality(Hits(rf, Head(roms))) + CountHits(rf, Tail(roms))

AllHits(rf, roms) == UNION {Hits(rf, roms[k]) : k \in 1..Len(roms)}

\* C7: a match leaves every existing link as it was, changes no field of an
\* existing game but an empty title_en, creates no game when every FileRecord
\* it matches is already linked, and gives a game with an empty title the
\* title of the first DAT rom when that rom matches a FileRecord linked to it.
C7_HashMatchKeepsLinksAndTitles ==
  Ran("Match") =>
    /\ \A i \in Linked(Pre.rf) : romFiles[i].game_id = Pre.rf[i].game_id
    /\ \A g \in 1..Len(Pre.games) :
         /\ games[g] = [Pre.games[g] EXCEPT !.title_en = games[g].title_en]
         /\ ~IsEmptyText(Pre.games[g].title_en)
              => games[g].title_en = Pre.games[g].title_en
         /\ ( /\ IsEmptyText(Pre.games[g].title_en)
              /\ Arg[1].GameTitle # Empty
              /\ \E i \in Hits(Pre.rf, Arg[1]) : Pre.rf[i].game_id = g )
            => games[g].title_en = Arg[1].GameTitle
    /\ AllHits(Pre.rf, Arg) \subseteq Linked(Pre.rf)
         => Len(games) = Len(Pre.games)

\* a DAT rom has matched a FileRecord linked to a game titled otherwise
C7_Witness ==
  /\ Ran("Match")
  /\ \E i \in Hits(Pre.rf, Arg[1]) :
       /\ Pre.rf[i].game_id # NoGame
       /\ ~IsEmptyText(Pre.games[Pre.rf[i].game_id].title_en)
       /\ Pre.games[Pre.rf[i].game_id].title_en # Arg[1].GameTitle
       /\ Arg[1].GameTitle # Empty

AllEmpty(dr) == dr.SHA1 = Empty /\ dr.MD5 = Empty /\ dr.CRC32 = Empty

----------------------------------------------------------------------------
(* Metadata-list match *)

\* the entries of the last gamelist that match FileRecord i
EntriesFor(i) ==
  {k \in 1..Len(Arg.entries) :
     i \in GameListRomIDs(Pre.rf, Arg.entries[k].Filename, Arg.platform)}

MaxOf(S) == CHOOSE k \in S : \A j \in S : j <= k

\* C9: a metadata-list match links every FileRecord an entry matches to the
\* game of (entry name, platform), whatever its link was, and leaves the link
\* of every FileRecord no entry matches.
C9_GameListOverwritesLinks ==
  Ran("ImportGameList") =>
    \A i \in 1..Len(romFiles) :
      IF EntriesFor(i) = {}
      THEN romFiles[i].game_id = Pre.rf[i].game_id
      ELSE /\ romFiles[i].game_id # NoGame
           /\ romFiles[i].game_id
                = FindByTitleJA(games, Arg.entries[MaxOf(EntriesFor(i))].Name,
                                Arg.platform)

\* a FileRecord linked to one game has been relinked to another, while a
\* linked FileRecord that no entry matches is there to keep its link
C9_Witness ==
  /\ Ran("ImportGameList")
  /\ \E i \in Linked(Pre.rf) :
       EntriesFor(i) # {} /\ romFiles[i].game_id # Pre.rf[i].game_id
  /\ \E j \in Linked(Pre.rf) : EntriesFor(j) = {}

----------------------------------------------------------------------------
(* Order of merges *)

Reorderings(q) ==
  LET n == Len(q)
      bij == {f \in [1..n -> 1..n] : \A a, b \in 1..n : f[a] = f[b] => a = b}
  IN {[k \in 1..n |-> q[f[k]]] : f \in bij}

NoGameRow == DatGame(Null, "")

\* a catalog up to the numbering of its games: how many games there are of
\* each content, and for each FileRecord the content of the game it links to
Canon(st) ==
  [games |-> {<<st.games[g], Cardinality({h \in 1..Len(st.games) :
                                            st.games[h] = st.games[g]})>> :
                g \in 1..Len(st.games)},
   links |-> {<<st.rf[i].path,
                IF st.rf[i].game_id = NoGame THEN NoGameRow
                ELSE st.games[st.rf[i].game_id]>> : i \in 1..Len(st.rf)}]

\* the last gamelist applied to the catalog that a match of roms leaves of Pre
HashThenList(roms) ==
  LET h == MatchROMs(Pre.rf, Pre.games, roms, 0)
  IN MatchByGameList(h.rf, h.games, Arg.entries, Arg.platform, 0)

\* a match of roms applied to the catalog the last gamelist has left
ListThenHash(roms) == MatchROMs(romFiles, games, roms, 0)

ListHits(rf, gl) ==
  UNION {GameListRomIDs(rf, gl.entries[k].Filename, gl.platform) :
           k \in 1..Len(gl.entries)}

NamedByList(st, gl, i) ==
  /\ st.rf[i].game_id # NoGame
  /\ st.games[st.rf[i].game_id].platform = gl.platform
  /\ \E k \in 1..Len(gl.entries) :
       /\ i \in GameListRomIDs(st.rf, gl.entries[k].Filename, gl.platform)
       /\ st.games[st.rf[i].game_id].title_ja = gl.entries[k].Name

----------------------------------------------------------------------------
(* import-dat *)

\* the (title, platform) pairs of a batch of DAT roms
BatchKeys(roms) ==
  {<<roms[k].GameTitle, roms[k].Platform>> : k \in 1..Len(roms)}

KeyEN(g) == <<g.title_en, g.platform>>

HasGameEN(gs, key) == \E i \in 1..Len(gs) : KeyEN(gs[i]) = key

\* the rows of games inserted by the last command
NewGames == (Len(Pre.games) + 1)..Len(games)

OnlyTitleAndPlatform(g) ==
  /\ g.title_en # Null /\ g.platform # ""
  /\ \A f \in {"title_ja", "description_ja", "developer", "publisher",
               "release_date", "genre", "players", "rating"} : g[f] = Null

\* C11: ImportDATGames changes no rom_files row and no existing games row, and
\* inserts one game, with its English title and platform only, exactly for
\* each (title, platform) of the batch that no game had before the call.
C11_ImportDATAdditive ==
  Ran("ImportDAT") =>
    /\ romFiles = Pre.rf
    /\ Len(games) >= Len(Pre.games)
    /\ SubSeq(games, 1, Len(Pre.games)) = Pre.games
    /\ \A j \in NewGames :
         /\ OnlyTitleAndPlatform(games[j])
         /\ KeyEN(games[j]) \in BatchKeys(Arg)
         /\ ~HasGameEN(Pre.games, KeyEN(games[j]))
         /\ \A j2 \in NewGames : KeyEN(games[j2]) = KeyEN(games[j]) => j2 = j
    /\ \A key \in BatchKeys(Arg) :
         ~HasGameEN(Pre.games, key) => \E j \in NewGames : KeyEN(games[j]) = key

\* an import into a catalog with linked rom files and games, of a batch with
\* one title that has a game already and one that has none
C11_Witness ==
  /\ Ran("ImportDAT")
  /\ \E i \in 1..Len(Pre.rf) : Pre.rf[i].game_id # NoGame
  /\ \E key \in BatchKeys(Arg) : HasGameEN(Pre.games, key)
  /\ \E key \in BatchKeys(Arg) : ~HasGameEN(Pre.games, key)
  /\ NewGames # {}

\* C12: the count ImportDATGames returns is the number of games it inserted,
\* a title on several rom entries of the batch counting once, and importing
\* the same batch again returns 0 and leaves games as it is.
C12_ImportDATIdempotent ==
  Ran("ImportDAT") =>
    /\ last.ret = Len(games) - Len(Pre.games)
    /\ last.ret <= Cardinality(BatchKeys(Arg))
    /\ LET again == ImportDATGames(games, Arg, 0)
       IN again.count = 0 /\ again.games = games /\ ~again.err

\* a batch with one title on two rom entries inserts that game once
C12_Witness ==
  /\ Ran("ImportDAT")
  /\ \E k1, k2 \in 1..Len(Arg) :
       /\ k1 # k2
       /\ Arg[k1].GameTitle = Arg[k2].GameTitle
       /\ ~HasGameEN(Pre.games, <<Arg[k1].GameTitle, Arg[k1].Platform>>)
  /\ last.ret = 1

----------------------------------------------------------------------------
(* probes before inserts *)

KeyJA(g) == <<g.title_ja, g.platform>>

HasGameJA(gs, key) == \E i \in 1..Len(gs) : KeyJA(gs[i]) = key

\* C13: no command inserts a game whose (title, platform) a game had when the
\* command began: the English title for import-dat, match and enrich, the
\* native title for import-gamelist.
C13_InsertsProbeFirst ==
  /\ (Ran("ImportDAT") \/ Ran("Match") \/ last.op = "Enrich") =>
       \A j \in NewGames : ~HasGameEN(Pre.games, KeyEN(games[j]))
  /\ Ran("ImportGameList") =>
       \A j \in NewGames : ~HasGameJA(Pre.games, KeyJA(games[j]))

----------------------------------------------------------------------------
(* failing statements *)

\* the last command was op and one of its statements failed
Failed(op) == last.op = op /\ last.fault

RolledBack == last.err /\ romFiles = Pre.rf /\ games = Pre.games

\* C14: when a statement of MatchROMs fails, MatchROMs returns an error and
\* the catalog is as it was before the call.
C14_MatchAllOrNothing == Failed("Match") => RolledBack

\* C15: when a statement of ImportDATGames or of MatchByGameList fails, the
\* call returns an error with zero counts and the catalog is as it was before
\* the call.
C15_ImportsAllOrNothing ==
  /\ Failed("ImportDAT") => (RolledBack /\ last.ret = 0)
  /\ Failed("ImportGameList") =>
       (RolledBack /\ last.ret = [created |-> 0, matched |-> 0])

----------------------------------------------------------------------------
(* the count of a hash match *)

\* the rom files whose game_id the last command set
LinksMade == {i \in 1..Len(romFiles) :
                i > Len(Pre.rf) \/ romFiles[i].game_id # Pre.rf[i].game_id}

----------------------------------------------------------------------------
(* import-gamelist: which rom files an entry names *)

HasPrefix(t, s) == Len(t) >= Len(s) /\ SubSeq(t, 1, Len(s)) = s

\* the three shapes of a display filename that name the file F
IsExactly(filename, F) == filename = F
IsInner(filename, F) == filename # F /\ HasSuffix(filename, <<"/">> \o F)
IsContainer(filename, F) == filename # F /\ HasPrefix(filename, F \o <<"/">>)

NamedAs(filename, F) ==
  IsExactly(filename, F) \/ IsInner(filename, F) \/ IsContainer(filename, F)

\* C17: MatchByGameList links every rom file of the list's platform whose
\* filename is F, ends in /F or begins with F/ for an entry's filename F, to a
\* game of that platform titled by an entry of the list, and leaves the rom
\* files of every other platform as they were.
C17_GameListLinksByFilename ==
  Ran("ImportGameList") =>
    /\ Len(romFiles) = Len(Pre.rf)
    /\ \A i \in 1..Len(Pre.rf), k \in 1..Len(Arg.entries) :
         (/\ Pre.rf[i].platform = Arg.platform
          /\ NamedAs(Pre.rf[i].filename, Arg.entries[k].Filename))
         => /\ romFiles[i].game_id # NoGame
            /\ games[romFiles[i].game_id].platform = Arg.platform
            /\ \E k2 \in 1..Len(Arg.entries) :
                 games[romFiles[i].game_id].title_ja = Arg.entries[k2].Name
    /\ \A i \in 1..Len(Pre.rf) :
         Pre.rf[i].platform # Arg.platform => romFiles[i] = Pre.rf[i]

\* one list has named rom files in each of the three shapes, and a rom file
\* of another platform with an entry's very filename has stayed unlinked
C17_Witness ==
  /\ Ran("ImportGameList")
  /\ \E i \in 1..Len(Pre.rf), k \in 1..Len(Arg.entries) :
       Pre.rf[i].platform = Arg.platform
       /\ IsExactly(Pre.rf[i].filename, Arg.entries[k].Filename)
  /\ \E i \in 1..Len(Pre.rf), k \in 1..Len(Arg.entries) :
       Pre.rf[i].platform = Arg.platform
       /\ IsInner(Pre.rf[i].filename, Arg.entries[k].Filename)
  /\ \E i \in 1..Len(Pre.rf), k \in 1..Len(Arg.entries) :
       Pre.rf[i].platform = Arg.platform
       /\ IsContainer(Pre.rf[i].filename, Arg.entries[k].Filename)
  /\ \E i \in 1..Len(Pre.rf), k \in 1..Len(Arg.entries) :
       /\ Pre.rf[i].platform # Arg.platform
       /\ IsExactly(Pre.rf[i].filename, Arg.entries[k].Filename)
       /\ romFiles[i].game_id = NoGame

\* C18: running MatchByGameList again with the same entries and platform
\* reports no game created and leaves rom_files and games as the first run
\* left them.
C18_GameListIdempotent ==
  Ran("ImportGameList") =>
    LET again == MatchByGameList(romFiles, games, Arg.entries, Arg.platform, 0)
    IN /\ again.created = 0
       /\ again.games = games
       /\ again.rf = romFiles
       /\ again.matched = last.ret.matched
       /\ ~again.err

\* the first run has created a game, linked rom files and updated a game
\* that was there before
C18_Witness ==
  /\ Ran("ImportGameList")
  /\ last.ret.created > 0
  /\ last.ret.matched > 0
  /\ \E j \in 1..Len(Pre.games) : games[j] # Pre.games[j]

----------------------------------------------------------------------------
(* scan: archives *)

\* the archives under a root whose platform takes the archive as the rom
ZipIsRomFiles(root) ==
  {k \in 1..Len(Files) :
     /\ IsUnder(root, Files[k].path)
     /\ ToLower(Ext(Base(Files[k].path))) = dotZip
     /\ detectPlatform(root, Files[k].path) \in zipIsRomPlatforms}

HashedAs(row, c) ==
  /\ row.hash_crc32 = Crc32Of(c)
  /\ row.hash_md5 = Md5Of(c)
  /\ row.hash_sha1 = Sha1Of(c)

\* C19: after a scan, an archive of a zip-is-rom platform has one rom file,
\* named as the archive and hashed over the archive's bytes; an archive of
\* another platform with one qualifying entry has one rom file, named
\* archive/entry and hashed over the entry's bytes, and none named as the
\* archive.
C19_ContainerPolicy ==
  last.op = "Scan" =>
    /\ \A k \in ZipIsRomFiles(last.arg) :
         LET file == Files[k]
             rows == RomsAt(romFiles, file.path)
         IN /\ Cardinality(rows) = 1
            /\ \A i \in rows :
                 /\ romFiles[i].filename = Base(file.path)
                 /\ HashedAs(romFiles[i], disk[file.leaf])
                 /\ romFiles[i].platform = detectPlatform(last.arg, file.path)
    /\ \A k \in CarrierFiles(last.arg) :
         LET file == Files[k]
             platform == detectPlatform(last.arg, file.path)
             q == QualifyingEntries(file, platform)
             rows == RomsAt(romFiles, file.path)
         IN Cardinality(q) = 1 =>
              /\ Cardinality(rows) = 1
              /\ \A i \in rows, e \in q :
                   /\ romFiles[i].filename
                        = Base(file.path) \o <<"/">> \o file.entries[e].name
                   /\ HashedAs(romFiles[i], disk[file.entries[e].leaf])
                   /\ romFiles[i].platform = platform
              /\ \A i \in 1..Len(romFiles) :
                   romFiles[i].filename # Base(file.path)

\* a scan has met an archive of either kind, each with bytes that differ from
\* the bytes of its entry
C19_Witness ==
  /\ last.op = "Scan"
  /\ \E k \in ZipIsRomFiles(last.arg) :
       \E e \in 1..Len(Files[k].entries) :
         disk[Files[k].entries[e].leaf] # disk[Files[k].leaf]
  /\ \E k \in CarrierFiles(last.arg) :
       LET q == QualifyingEntries(Files[k],
                                  detectPlatform(last.arg, Files[k].path))
       IN /\ Cardinality(q) = 1
          /\ \A e \in q : disk[Files[k].entries[e].leaf] # disk[Files[k].leaf]

----------------------------------------------------------------------------
(* internal/dat: the platform of a DAT file, from its header name *)

pNintendoEntertainmentSystem ==
  <<"n","i","n","t","e","n","d","o"," ","e","n","t","e","r","t","a","i","n",
    "m","e","n","t"," ","s","y","s","t","e","m">>
pFamicom == <<"f","a","m","i","c","o","m">>
pSuperNintendo == <<"s","u","p","e","r"," ","n","i","n","t","e","n","d","o">>
pSuperFamicom == <<"s","u","p","e","r"," ","f","a","m","i","c","o","m">>
pGameBoyAdvance ==
  <<"g","a","m","e"," ","b","o","y"," ","a","d","v","a","n","c","e">>
pGameBoyColor == <<"g","a","m","e"," ","b","o","y"," ","c","o","l","o","r">>
pGameBoy == <<"g","a","m","e"," ","b","o","y">>
pMegaDrive == <<"m","e","g","a"," ","d","r","i","v","e">>
pGenesis == <<"g","e","n","e","s","i","s">>
pPlaystation == <<"p","l","a","y","s","t","a","t","i","o","n">>
pNintendo64 == <<"n","i","n","t","e","n","d","o"," ","6","4">>
pNintendoDs == <<"n","i","n","t","e","n","d","o"," ","d","s">>
pPcEngine == <<"p","c"," ","e","n","g","i","n","e">>
pTurbografx == <<"t","u","r","b","o","g","r","a","f","x">>
pGameGear == <<"g","a","m","e"," ","g","e","a","r">>
pMasterSystem == <<"m","a","s","t","e","r"," ","s","y","s","t","e","m">>
pWonderswanColor ==
  <<"w","o","n","d","e","r","s","w","a","n"," ","c","o","l","o","r">>
pWonderswan == <<"w","o","n","d","e","r","s","w","a","n">>
pNeoGeoPocket == <<"n","e","o"," ","g","e","o"," ","p","o","c","k","e","t">>

\* the map literal of detectPlatformFromHeader: pattern -> platform
patterns ==
  { <<pNintendoEntertainmentSystem, "FC">>,
    <<pFamicom, "FC">>,
    <<pSuperNintendo, "SFC">>,
    <<pSuperFamicom, "SFC">>,
    <<pGameBoyAdvance, "GBA">>,
    <<pGameBoyColor, "GBC">>,
    <<pGameBoy, "GB">>,
    <<pMegaDrive, "MD">>,
    <<pGenesis, "MD">>,
    <<pPlaystation, "PS1">>,
    <<pNintendo64, "N64">>,
    <<pNintendoDs, "NDS">>,
    <<pPcEngine, "PCE">>,
    <<pTurbografx, "PCE">>,
    <<pGameGear, "GG">>,
    <<pMasterSystem, "SMS">>,
    <<pWonderswanColor, "WSC">>,
    <<pWonderswan, "WS">>,
    <<pNeoGeoPocket, "NGP">> }

PatternPlatform(p) == (CHOOSE e \in patterns : e[1] = p)[2]

\* order with each short pattern before the longer ones that contain it
order_ShortFirst ==
  << pGameBoy, pGameBoyColor, pGameBoyAdvance,
     pWonderswan, pWonderswanColor, pSuperNintendo,
     pSuperFamicom, pNintendoEntertainmentSystem, pFamicom,
     pMegaDrive, pGenesis, pNintendo64,
     pNintendoDs, pPcEngine, pTurbografx,
     pGameGear, pMasterSystem, pNeoGeoPocket,
     pPlaystation >>

\* the slice the patterns are tried in
order ==
  << pGameBoyAdvance, pGameBoyColor, pGameBoy,
     pWonderswanColor, pWonderswan, pSuperNintendo,
     pSuperFamicom, pNintendoEntertainmentSystem, pFamicom,
     pMegaDrive, pGenesis, pNintendo64,
     pNintendoDs, pPcEngine, pTurbografx,
     pGameGear, pMasterSystem, pNeoGeoPocket,
     pPlaystation >>

\* strings.Contains
Contains(t, s) ==
  \E i \in 0..(Len(t) - Len(s)) : SubSeq(t, i + 1, i + Len(s)) = s

\* for _, pattern := range order: the platform of the first pattern found
RECURSIVE firstPattern(_, _)
firstPattern(lower, ord) ==
  IF ord = <<>> THEN ""
  ELSE IF Contains(lower, Head(ord)) THEN PatternPlatform(Head(ord))
  ELSE firstPattern(lower, Tail(ord))

detectPlatformFromHeader(name) == firstPattern(ToLower(name), order)

\* parseXML / parseClrMamePro: the platform given on the command line wins,
\* else the header decides, and no platform at all is an error
ResolvePlatform(name, platform) ==
  LET p == IF platform = "" THEN detectPlatformFromHeader(name) ELSE platform
  IN [platform |-> p, err |-> p = ""]

\* header names: an optional maker, a system, an optional tail
hPrefixes ==
  { <<>>,
    <<"N","i","n","t","e","n","d","o"," ","-"," ">>,
    <<"S","e","g","a"," ","-"," ">> }

hSystems ==
  { <<"G","a","m","e"," ","B","o","y"," ","A","d","v","a","n","c","e">>,
    <<"G","a","m","e"," ","B","o","y"," ","C","o","l","o","r">>,
    <<"G","A","M","E"," ","B","O","Y"," ","C","O","L","O","R">>,
    <<"G","a","m","e"," ","B","o","y">>,
    <<"W","o","n","d","e","r","S","w","a","n"," ","C","o","l","o","r">>,
    <<"w","o","n","d","e","r","s","w","a","n"," ","c","o","l","o","r">>,
    <<"W","o","n","d","e","r","S","w","a","n">>,
    <<"S","u","p","e","r"," ","N","i","n","t","e","n","d","o">>,
    <<"S","u","p","e","r"," ","F","a","m","i","c","o","m">>,
    <<"N","i","n","t","e","n","d","o">>,
    <<"F","a","m","i","c","o","m">>,
    <<"M","e","g","a"," ","D","r","i","v","e">>,
    <<"G","e","n","e","s","i","s">>,
    <<"N","i","n","t","e","n","d","o"," ","6","4">>,
    <<"N","i","n","t","e","n","d","o"," ","D","S">>,
    <<"P","C"," ","E","n","g","i","n","e">>,
    <<"T","u","r","b","o","G","r","a","f","x">>,
    <<"G","a","m","e"," ","G","e","a","r">>,
    <<"M","a","s","t","e","r"," ","S","y","s","t","e","m">>,
    <<"N","e","o"," ","G","e","o"," ","P","o","c","k","e","t">>,
    <<"P","l","a","y","S","t","a","t","i","o","n">>,
    <<"U","n","k","n","o","w","n"," ","S","y","s","t","e","m">> }

hSuffixes ==
  { <<>>,
    <<" ","E","n","t","e","r","t","a","i","n","m","e","n","t"," ","S","y","s","t","e","m">>,
    <<" ","-"," ","G","e","n","e","s","i","s">>,
    <<" ","/"," ","G","a","m","e"," ","B","o","y"," ","A","d","v","a","n","c","e">> }

HeaderNames ==
  {a \o b \o c : a \in hPrefixes, b \in hSystems, c \in hSuffixes}

\* a DAT file waits to be parsed: its header name and the --platform flag
InitHeader ==
  /\ disk = InitDisk
  /\ romFiles = <<>>
  /\ games = <<>>
  /\ nops = 0
  /\ \E name \in HeaderNames, platform \in {"", "FC"} :
       last = [op |-> "Header", arg |-> [name |-> name, platform |-> platform],
               pre |-> [rf |-> <<>>, games |-> <<>>], ret |-> <<>>,
               err |-> FALSE, fault |-> FALSE]

\* ParseDAT resolves the platform of the file
ParseDAT ==
  /\ last.op = "Header"
  /\ LET r == ResolvePlatform(last.arg.name, last.arg.platform)
     IN last' = Done("ParseDAT", last.arg, r.platform, r.err, FALSE)
  /\ UNCHANGED <<disk, romFiles, games, nops>>

HeaderSpec == InitHeader /\ [][ParseDAT]_vars

hMegaDriveGenesis ==
  <<"S","e","g","a"," ","-"," ","M","e","g","a"," ","D","r","i","v","e"," ",
    "-"," ","G","e","n","e","s","i","s">>
hSuperNintendo ==
  <<"N","i","n","t","e","n","d","o"," ","-"," ","S","u","p","e","r"," ","N",
    "i","n","t","e","n","d","o"," ","E","n","t","e","r","t","a","i","n","m",
    "e","n","t"," ","S","y","s","t","e","m">>

\* the header name the last parse read, in lower case
LowerName == ToLower(last.arg.name)

NamesGameBoy == Contains(LowerName, pGameBoy)

----------------------------------------------------------------------------
(* internal/dat: the two dialects of a DAT file.  A file in the XML        *)
(* dialect is what encoding/xml decodes it to; a file in the line-oriented *)
(* (ClrMamePro) dialect is its lines, read character by character.         *)

WsChars == {" ", "\t"}
DigitChars == {"0", "1", "2", "3", "4", "5", "6", "7", "8", "9"}
LowerChars == {UpperToLower[c] : c \in DOMAIN UpperToLower}
WordChars == DigitChars \cup DOMAIN UpperToLower \cup LowerChars \cup {"_"}

\* strings.ToUpper
UpperChar(c) ==
  IF c \in LowerChars
  THEN CHOOSE u \in DOMAIN UpperToLower : UpperToLower[u] = c
  ELSE c

ToUpper(t) == [i \in 1..Len(t) |-> UpperChar(t[i])]

\* strings.TrimSpace
TrimSpace(t) ==
  LET inked == {i \in 1..Len(t) : t[i] \notin WsChars}
  IN IF inked = {} THEN <<>>
     ELSE SubSeq(t, CHOOSE i \in inked : \A j \in inked : i <= j,
                    CHOOSE i \in inked : \A j \in inked : j <= i)

\* strings.Index(t, s) for a substring s: 1-based, 0 when absent
IndexOfSub(t, s) ==
  LET hits == {i \in 1..(Len(t) - Len(s) + 1) : SubSeq(t, i, i + Len(s) - 1) = s}
  IN IF hits = {} THEN 0 ELSE CHOOSE i \in hits : \A j \in hits : i <= j

\* strconv.ParseInt(s, 10, 64) with the error dropped: 0 unless all digits
DigitValue(c) ==
  CASE c = "0" -> 0 [] c = "1" -> 1 [] c = "2" -> 2 [] c = "3" -> 3
    [] c = "4" -> 4 [] c = "5" -> 5 [] c = "6" -> 6 [] c = "7" -> 7
    [] c = "8" -> 8 [] c = "9" -> 9

RECURSIVE digitsValue(_, _)
digitsValue(t, acc) ==
  IF t = <<>> THEN acc
  ELSE digitsValue(Tail(t), 10 * acc + DigitValue(Head(t)))

ParseInt(t) ==
  IF t # <<>> /\ \A i \in 1..Len(t) : t[i] \in DigitChars
  THEN digitsValue(t, 0)
  ELSE 0

kwName == <<"n","a","m","e">>
kwQuote == <<"\"">>
kwGameOpen == <<"g","a","m","e"," ","(">>
kwRomOpen == <<"r","o","m"," ","(">>
kwNameQuote == <<"n","a","m","e"," ","\"">>
kwClrmamepro == <<"c","l","r","m","a","m","e","p","r","o">>
kwRom == <<"r","o","m">>
kwSize == <<"s","i","z","e">>
kwCrc == <<"c","r","c">>
kwMd5 == <<"m","d","5">>
kwSha1 == <<"s","h","a","1">>

\* extractQuoted(line, key): the text between key + ` "` and the next quote
extractQuoted(line, key) ==
  LET prefix == key \o <<" ", "\"">>
      idx == IndexOfSub(line, prefix)
      start == idx + Len(prefix)
      rest == SubSeq(line, start, Len(line))
      end == IndexOfSub(rest, kwQuote)
  IN IF idx = 0 THEN <<>>
     ELSE IF end = 0 THEN rest
     ELSE SubSeq(rest, 1, end - 1)

(* clrRomLineRe, matched from one start position.  A position is the index *)
(* of the next character to read, 0 once the match has failed.  Every      *)
(* repetition of the expression is followed by a character outside its     *)
(* class, so the greedy match is the only one.                             *)

\* the first position from p on that holds no character of class S
SkipIn(t, p, S) ==
  CHOOSE r \in p..(Len(t) + 1) :
    /\ r = Len(t) + 1 \/ t[r] \notin S
    /\ \A j \in p..(r - 1) : t[j] \in S

\* S* and S+
Star(t, p, S) == IF p = 0 THEN 0 ELSE SkipIn(t, p, S)
Plus(t, p, S) == IF p = 0 \/ SkipIn(t, p, S) = p THEN 0 ELSE SkipIn(t, p, S)

\* a literal
Lit(t, p, s) ==
  IF p # 0 /\ p + Len(s) - 1 <= Len(t) /\ SubSeq(t, p, p + Len(s) - 1) = s
  THEN p + Len(s)
  ELSE 0

\* \s+ keyword \s+
Keyword(t, p, kw) == Plus(t, Lit(t, Plus(t, p, WsChars), kw), WsChars)

\* [^"]+ : up to the next quote, at least one character
NotQuote(t, p) ==
  IF p = 0 THEN 0
  ELSE LET r == CHOOSE r \in p..(Len(t) + 1) :
                  /\ r = Len(t) + 1 \/ t[r] = "\""
                  /\ \A j \in p..(r - 1) : t[j] # "\""
       IN IF r = p THEN 0 ELSE r

\* (?:\s+[^)]*?)?\s*\) : a ")" follows, after nothing or after text that
\* starts with white space and holds no ")"
RomTail(t, p) ==
  IF p = 0 THEN 0
  ELSE LET closes == {c \in p..Len(t) : t[c] = ")"}
       IN IF closes = {} THEN 0
          ELSE LET c == CHOOSE c \in closes : \A d \in closes : c <= d
               IN IF c = p \/ t[p] \in WsChars THEN c + 1 ELSE 0

\* rom\s*\(\s*name\s+"([^"]+)"\s+size\s+(\d+)\s+crc\s+(\w+)\s+md5\s+(\w+)\s+sha1\s+(\w+)...\)
romLineAt(t, i) ==
  LET n0 == Lit(t, Plus(t, Lit(t, Star(t, Lit(t, Star(t, Lit(t, i, kwRom),
                 WsChars), <<"(">>), WsChars), kwName), WsChars), kwQuote)
      n1 == NotQuote(t, n0)
      s0 == Keyword(t, Lit(t, n1, kwQuote), kwSize)
      s1 == Plus(t, s0, DigitChars)
      c0 == Keyword(t, s1, kwCrc)
      c1 == Plus(t, c0, WordChars)
      m0 == Keyword(t, c1, kwMd5)
      m1 == Plus(t, m0, WordChars)
      h0 == Keyword(t, m1, kwSha1)
      h1 == Plus(t, h0, WordChars)
  IN IF RomTail(t, h1) = 0 THEN [ok |-> FALSE]
     ELSE [ok |-> TRUE,
           name |-> SubSeq(t, n0, n1 - 1), size |-> SubSeq(t, s0, s1 - 1),
           crc |-> SubSeq(t, c0, c1 - 1), md5 |-> SubSeq(t, m0, m1 - 1),
           sha1 |-> SubSeq(t, h0, h1 - 1)]

\* clrRomLineRe.FindStringSubmatch(line): the leftmost match, if any
clrRomLineRe(line) ==
  LET starts == {i \in 1..Len(line) : romLineAt(line, i).ok}
  IN IF starts = {} THEN [ok |-> FALSE]
     ELSE romLineAt(line, CHOOSE i \in starts : \A j \in starts : i <= j)

\* db.DATRom as the parsers build it
ParsedRom(title, platform, crc, md5, sha1, size) ==
  [GameTitle |-> title, Platform |-> platform, CRC32 |-> ToUpper(crc),
   MD5 |-> ToUpper(md5), SHA1 |-> ToUpper(sha1), Size |-> ParseInt(size)]

\* for i := range roms { roms[i].Platform = platform }
SetPlatform(roms, platform) ==
  [i \in 1..Len(roms) |-> [roms[i] EXCEPT !.Platform = platform]]

\* what a parser returns: the records, the header name, and the error with
\* the header name its message quotes
ParseOk(roms, name) == [roms |-> roms, name |-> name, err |-> FALSE, quoted |-> <<>>]
ParseErr(quoted) == [roms |-> <<>>, name |-> <<>>, err |-> TRUE, quoted |-> quoted]

\* headerName and currentGame after a trimmed line
clrNames(st, line) ==
  LET named == HasPrefix(line, kwNameQuote)
      s1 == IF named /\ st.headerName = <<>>
            THEN [st EXCEPT !.headerName = extractQuoted(line, kwName)]
            ELSE st
      s2 == IF HasPrefix(line, kwGameOpen)
            THEN [s1 EXCEPT !.currentGame = <<>>]
            ELSE s1
  IN IF s2.currentGame = <<>> /\ named
     THEN [s2 EXCEPT !.currentGame = extractQuoted(line, kwName)]
     ELSE s2

\* roms = append(roms, rom) for a match m of clrRomLineRe
clrRom(st, m) ==
  IF m.ok
  THEN [st EXCEPT !.roms =
          Append(@, ParsedRom(IF st.currentGame = <<>> THEN m.name
                              ELSE st.currentGame,
                              "", m.crc, m.md5, m.sha1, m.size))]
  ELSE st

\* the body of the loop for a trimmed line
clrTrimmed(st, line) ==
  IF Contains(line, kwRomOpen)
  THEN clrRom(clrNames(st, line), clrRomLineRe(line))
  ELSE clrNames(st, line)

\* one line of the loop of parseClrMamePro
clrLine(st, raw) == clrTrimmed(st, TrimSpace(raw))

RECURSIVE clrLoop(_, _)
clrLoop(lines, st) ==
  IF lines = <<>> THEN st ELSE clrLoop(Tail(lines), clrLine(st, Head(lines)))

\* what parseClrMamePro returns for the state st the loop ends in and the
\* platform p resolved for it
clrResult(st, p) ==
  IF p.err THEN ParseErr(st.headerName)
  ELSE ParseOk(SetPlatform(st.roms, p.platform), st.headerName)

\* the platform of the header name the loop found, or the one given
clrResolved(st, platform) ==
  clrResult(st, ResolvePlatform(st.headerName, platform))

\* clrResolved that hands back what it read when no platform is found
clrKeepsRoms(st, platform) ==
  ParseOk(SetPlatform(st.roms, ResolvePlatform(st.headerName, platform).platform),
          st.headerName)

\* parseClrMamePro that hands back what it read when no platform is found
parseClrMamePro_KeepsRoms(lines, platform) ==
  clrKeepsRoms(clrLoop(lines, [headerName |-> <<>>, currentGame |-> <<>>,
                               roms |-> <<>>]), platform)

parseClrMamePro(lines, platform) ==
  clrResolved(clrLoop(lines, [headerName |-> <<>>, currentGame |-> <<>>,
                              roms |-> <<>>]), platform)

\* for _, g := range datafile.Games { for _, r := range g.ROMs { ... } }
RECURSIVE xmlRoms(_, _, _)
xmlRoms(title, roms, platform) ==
  IF roms = <<>> THEN <<>>
  ELSE <<ParsedRom(title, platform, Head(roms).CRC, Head(roms).MD5,
                   Head(roms).SHA1, Head(roms).Size)>>
       \o xmlRoms(title, Tail(roms), platform)

RECURSIVE xmlGames(_, _)
xmlGames(gs, platform) ==
  IF gs = <<>> THEN <<>>
  ELSE xmlRoms(Head(gs).Name, Head(gs).ROMs, platform)
       \o xmlGames(Tail(gs), platform)

parseXML(doc, platform) ==
  LET p == ResolvePlatform(doc.Header, platform)
  IN IF ~doc.decodes THEN ParseErr(<<>>)
     ELSE IF p.err THEN ParseErr(doc.Header)
     ELSE ParseOk(xmlGames(doc.Games, p.platform), doc.Header)

\* ParseDAT: the first line of the file decides the dialect
IsClrMamePro(firstLine) == HasPrefix(TrimSpace(firstLine), kwClrmamepro)

\* lines of a file in the line-oriented dialect
lClr == <<"c","l","r","m","a","m","e","p","r","o"," ","(">>
lNameGameBoy == <<"\t","n","a","m","e"," ","\"","G","a","m","e"," ","B","o","y","\"">>
lNameMisc == <<"\t","n","a","m","e"," ","\"","M","i","s","c","\"">>
lClose == <<")">>
lGame == <<"g","a","m","e"," ","(">>
lNameA == <<"\t","n","a","m","e"," ","\"","A","\"">>
lNameB == <<"\t","n","a","m","e"," ","\"","B","\"">>
lRomR == <<"\t","r","o","m"," ","("," ","n","a","m","e"," ","\"","r",".","g",
      "b","\""," ","s","i","z","e"," ","1","6"," ","c","r","c"," ","0",
      "a"," ","m","d","5"," ","0","b"," ","s","h","a","1"," ","0","c"," ",
      ")">>
lRomS == <<"\t","r","o","m"," ","("," ","n","a","m","e"," ","\"","s",".","g",
      "b","\""," ","s","i","z","e"," ","3","2"," ","c","r","c"," ","1",
      "a"," ","m","d","5"," ","1","b"," ","s","h","a","1"," ","1","c"," ",
      "f","l","a","g","s"," ","v","e","r","i","f","i","e","d"," ",")">>
lRomBad == <<"\t","r","o","m"," ","("," ","n","a","m","e"," ","\"","t",".","g",
      "b","\""," ","s","i","z","e"," ","1","6"," ","c","r","c"," ","0",
      "a"," ",")">>
lInline == <<"g","a","m","e"," ","("," ","n","a","m","e"," ","\"","A","\""," ",
      "r","o","m"," ","("," ","n","a","m","e"," ","\"","r",".","g","b",
      "\""," ","s","i","z","e"," ","1","6"," ","c","r","c"," ","0","a",
      " ","m","d","5"," ","0","b"," ","s","h","a","1"," ","0","c"," ",")",
      " ",")">>
lXml == <<"<","?","x","m","l"," ","v","e","r","s","i","o","n","=","\"","1",
      ".","0","\"","?",">">>

tGameBoy == <<"G","a","m","e"," ","B","o","y">>
tMisc == <<"M","i","s","c">>
tRgb == <<"r",".","g","b">>
tSgb == <<"s",".","g","b">>

\* the header block, with a name the patterns know, with one they do not,
\* and with none
ClrHeaders ==
  { <<lClr, lNameGameBoy, lClose>>, <<lClr, lNameMisc, lClose>>,
    <<lClr, lClose>> }

\* what may follow the header: a game block that names itself before its
\* rom, one that names itself after it, one with no name, a rom outside any
\* block, a block whose rom line lacks md5 and sha1, a block on one line
ClrBlocks ==
  { <<lGame, lNameA, lRomR, lClose>>, <<lGame, lRomS, lNameB, lClose>>,
    <<lGame, lRomS, lClose>>, <<lRomS>>,
    <<lGame, lNameA, lRomBad, lClose>>, <<lInline>> }

ClrFiles ==
  { [lines |-> h \o b1 \o b2, decodes |-> FALSE, Header |-> <<>>, Games |-> <<>>] :
      h \in ClrHeaders, b1 \in ClrBlocks, b2 \in ClrBlocks }

xRomR == [Name |-> tRgb, Size |-> <<"1", "6">>, CRC |-> <<"0", "a">>,
          MD5 |-> <<"0", "b">>, SHA1 |-> <<"0", "c">>]
xRomS == [Name |-> tSgb, Size |-> <<>>, CRC |-> <<"1", "a">>,
          MD5 |-> <<"1", "b">>, SHA1 |-> <<"1", "c">>]

XmlGameLists ==
  { <<>>, << [Name |-> <<"A">>, ROMs |-> <<xRomR>>] >>,
    << [Name |-> <<"A">>, ROMs |-> <<xRomR, xRomS>>],
       [Name |-> <<"B">>, ROMs |-> <<xRomS>>] >> }

XmlFiles ==
  { [lines |-> <<lXml>>, decodes |-> TRUE, Header |-> h, Games |-> gs] :
      h \in {tGameBoy, tMisc, <<>>}, gs \in XmlGameLists }
  \cup { [lines |-> <<lXml>>, decodes |-> FALSE, Header |-> <<>>, Games |-> <<>>] }

\* a DAT file waits to be parsed, with or without the --platform flag
InitDat ==
  /\ disk = InitDisk
  /\ romFiles = <<>>
  /\ games = <<>>
  /\ nops = 0
  /\ \E doc \in ClrFiles \cup XmlFiles, platform \in {"", "FC"} :
       last = [op |-> "DatFile", arg |-> [doc |-> doc, platform |-> platform],
               pre |-> [rf |-> <<>>, games |-> <<>>], ret |-> <<>>,
               err |-> FALSE, fault |-> FALSE]

\* ParseDAT on a file whose first line starts with "clrmamepro"
ParseDATClr ==
  /\ last.op = "DatFile"
  /\ IsClrMamePro(Head(last.arg.doc.lines))
  /\ \E r \in {parseClrMamePro(last.arg.doc.lines, last.arg.platform)} :
       last' = Done("parseClrMamePro", last.arg, r, r.err, FALSE)
  /\ UNCHANGED <<disk, romFiles, games, nops>>

\* ParseDAT on any other file
ParseDATXml ==
  /\ last.op = "DatFile"
  /\ ~IsClrMamePro(Head(last.arg.doc.lines))
  /\ \E r \in {parseXML(last.arg.doc, last.arg.platform)} :
       last' = Done("parseXML", last.arg, r, r.err, FALSE)
  /\ UNCHANGED <<disk, romFiles, games, nops>>

NextDat == ParseDATClr \/ ParseDATXml

DatSpec == InitDat /\ [][NextDat]_vars

----------------------------------------------------------------------------
(* Properties of the DAT parsers, checked under DatSpec *)

IsClrFile(doc) == IsClrMamePro(Head(doc.lines))

\* the lines of the header block: from "clrmamepro (" to the first ")"
HeaderBlock(lines) ==
  LET closes == {k \in 1..Len(lines) : TrimSpace(lines[k]) = lClose}
  IN SubSeq(lines, 1, CHOOSE k \in closes : \A j \in closes : k <= j)

HeaderNameLines(doc) ==
  {k \in 1..Len(HeaderBlock(doc.lines)) :
     HasPrefix(TrimSpace(doc.lines[k]), kwNameQuote)}

\* the file has a header that states a title (an XML header with an empty
\* name states the empty title)
HasTitle(doc) ==
  IF IsClrFile(doc) THEN HeaderNameLines(doc) # {} ELSE doc.decodes

HeaderTitle(doc) ==
  IF IsClrFile(doc)
  THEN extractQuoted(doc.lines[CHOOSE k \in HeaderNameLines(doc) :
                                 \A j \in HeaderNameLines(doc) : k <= j], kwName)
  ELSE doc.Header

Parsed == last.op \in {"parseClrMamePro", "parseXML"}

ClrLineAt(doc, k) == TrimSpace(doc.lines[k])
OpensGame(doc, k) == HasPrefix(ClrLineAt(doc, k), kwGameOpen)
ClosesBlock(doc, k) ==
  \/ ClrLineAt(doc, k) = lClose
  \/ OpensGame(doc, k) /\ HasSuffix(ClrLineAt(doc, k), lClose)
NamesBlock(doc, k) == HasPrefix(ClrLineAt(doc, k), kwNameQuote)

\* the lines that are a well-formed ROM entry on a line of its own
RomLines(doc) ==
  {k \in 1..Len(doc.lines) :
     /\ ~OpensGame(doc, k)
     /\ Contains(ClrLineAt(doc, k), kwRomOpen)
     /\ clrRomLineRe(ClrLineAt(doc, k)).ok}

\* every line that yields a record, and the place of line k's record
RecordLines(doc) ==
  {k \in 1..Len(doc.lines) :
     Contains(ClrLineAt(doc, k), kwRomOpen) /\ clrRomLineRe(ClrLineAt(doc, k)).ok}
RecordOf(doc, k) == Cardinality({j \in RecordLines(doc) : j <= k})

\* the game blocks still open at line k
OpenBlocks(doc, k) ==
  {g \in 1..(k - 1) : OpensGame(doc, g) /\ \A j \in g..(k - 1) : ~ClosesBlock(doc, j)}

\* the name lines of the enclosing block that come before line k
NamesBefore(doc, k) ==
  LET g == CHOOSE g \in OpenBlocks(doc, k) : \A h \in OpenBlocks(doc, k) : h <= g
  IN {j \in (g + 1)..(k - 1) : NamesBlock(doc, j)}

\* the title the ROM entry of line k is to get
TitleFor(doc, k) ==
  IF OpenBlocks(doc, k) = {} \/ NamesBefore(doc, k) = {}
  THEN clrRomLineRe(ClrLineAt(doc, k)).name
  ELSE extractQuoted(ClrLineAt(doc, CHOOSE j \in NamesBefore(doc, k) :
                                      \A i \in NamesBefore(doc, k) : j <= i),
                     kwName)

\* C26: in the line-oriented dialect a ROM entry inside a game block that has
\* declared its name gets that name as title; a ROM entry before the first
\* game block, after a game block has closed, or in a block that has not
\* declared a name before it, gets its own ROM name.
C26_ClrTitles ==
  (last.op = "parseClrMamePro" /\ ~last.ret.err) =>
    \A k \in RomLines(last.arg.doc) :
      last.ret.roms[RecordOf(last.arg.doc, k)].GameTitle = TitleFor(last.arg.doc, k)

----------------------------------------------------------------------------
(* internal/scanner: the platform of a path, for roots and folders of any  *)
(* spelling.  One file lies under a root, below up to two folders, and the *)
(* root is scanned.                                                        *)

cRoms == <<"r","o","m","s">>
cUpperMd == <<"M","d">>
cUpperFc == <<"F","C">>
nNes == <<"n","e","s">>
nUpperNes == <<"N","E","S">>

PathRoots == { <<cRoms>>, <<cRoms, cUpperMd>>, <<cRoms, cMisc>> }
PathFolders == {cUpperFc, cMd, cPs1, cMisc}
PathNames == {nBbin, nUnes, nNes, nUpperNes}

FolderRuns ==
  { <<>> } \cup { <<a>> : a \in PathFolders }
           \cup { <<a, b>> : a \in PathFolders, b \in PathFolders }

\* a tree with one file waits to be scanned
InitPath ==
  /\ disk = InitDisk
  /\ romFiles = <<>>
  /\ games = <<>>
  /\ nops = 0
  /\ \E root \in PathRoots, run \in FolderRuns, name \in PathNames :
       last = [op |-> "Tree",
               arg |-> [root |-> root, path |-> root \o run \o <<name>>],
               pre |-> [rf |-> <<>>, games |-> <<>>], ret |-> <<>>,
               err |-> FALSE, fault |-> FALSE]

\* romu scan <root> on that tree
ScanPath ==
  /\ last.op = "Tree"
  /\ \E r \in {walk(last.arg.root,
                    << [path |-> last.arg.path, leaf |-> "b", entries |-> <<>>] >>,
                    disk, ScanState(romFiles, 0))} :
       /\ romFiles' = r.rf
       /\ last' = Done("ScanPath", last.arg,
                       [platform |-> detectPlatform(last.arg.root, last.arg.path),
                        res |-> r.res],
                       FALSE, FALSE)
  /\ nops' = nops + 1
  /\ UNCHANGED <<disk, games>>

PathSpec == InitPath /\ [][ScanPath]_vars

\* the folders between the root and the file, top first
FoldersOf(root, path) == SubSeq(path, Len(root) + 1, Len(path) - 1)

Recognized(name) == \E e \in platformFolders : e[1] = ToLower(name)

\* the places of the recognized folders among them
RecognizedAt(root, path) ==
  {k \in 1..Len(FoldersOf(root, path)) : Recognized(FoldersOf(root, path)[k])}

\* C22: when the basename of the root, in any letter case, is a platform
\* folder name, every path under the root has that platform; otherwise the
\* platform is that of the top-most recognized folder between the root and
\* the file, whatever folders lie above or below it.
C22_PlatformOfPath ==
  last.op = "ScanPath" =>
    LET root == last.arg.root
        path == last.arg.path
    IN IF Recognized(Base(root))
       THEN last.ret.platform = FolderPlatform(ToLower(Base(root)))
       ELSE RecognizedAt(root, path) # {} =>
              \E k \in RecognizedAt(root, path) :
                /\ \A j \in RecognizedAt(root, path) : k <= j
                /\ last.ret.platform =
                     FolderPlatform(ToLower(FoldersOf(root, path)[k]))

\* a file under the root "roms", in the folder "ps1" of the folder "md", has
\* the platform MD of the upper folder
C22_Witness ==
  /\ last.op = "ScanPath"
  /\ last.arg.root = <<cRoms>>
  /\ FoldersOf(last.arg.root, last.arg.path) = <<cMd, cPs1>>
  /\ last.ret.platform = "MD"

\* C23: a file with no recognized folder above it (neither the root's
\* basename nor a folder between the root and the file) has the platform
\* unknown whatever its own name is, is counted as skipped, and no FileRecord
\* is made for it.
C23_UnknownIsSkipped ==
  (/\ last.op = "ScanPath"
   /\ ~Recognized(Base(last.arg.root))
   /\ RecognizedAt(last.arg.root, last.arg.path) = {}) =>
    /\ last.ret.platform = ""
    /\ last.ret.res = [ZeroResult EXCEPT !.Skipped = 1]
    /\ romFiles = <<>>

----------------------------------------------------------------------------
(* Scans of a tree with files that cannot be read, with a store that       *)
(* refuses one upsert, and of roots that are no directory.                 *)

\* the leaves that may go bad, and how
Damages ==
  { <<"y", Unreadable>>, <<"y", NoStat>>, <<"g", Unreadable>>,
    <<"gy", Unreadable>>, <<"k", Unreadable>> }

\* the two roots of the tree, a regular file, and a path that is not there
ScanRoots == Roots \cup { pathY, <<cRoms>> }

\* a file of the tree becomes unreadable
Damage(l, s) ==
  /\ nops < MaxOps
  /\ disk[l] \in Contents
  /\ disk' = [disk EXCEPT ![l] = s]
  /\ last' = Done("Damage", l, <<>>, FALSE, FALSE)
  /\ nops' = nops + 1
  /\ UNCHANGED <<romFiles, games>>

\* romu scan <root>, the upsert of number fail failing (0: none)
ScanWithFaults(root, fail) ==
  /\ nops < MaxOps
  /\ \E r \in {ScanFaulty(root, disk, romFiles, fail)} :
        /\ romFiles' = r.rf
        /\ last' = Done("ScanFaulty", [root |-> root, fail |-> fail], r.res,
                        r.err, fail # 0)
  /\ nops' = nops + 1
  /\ UNCHANGED <<disk, games>>

NextScanFault ==
  \/ \E c \in Contents : WriteFile("y", c)
  \/ \E d \in Damages : Damage(d[1], d[2])
  \/ \E root \in ScanRoots, fail \in 0..MaxFail : ScanWithFaults(root, fail)

ScanFaultSpec == Init /\ [][NextScanFault]_vars

(* Properties of a scan with failures, checked under ScanFaultSpec *)

\* the row of a path, as a sequence of no row or one
RowOf(rf, path) ==
  IF RomIndex(rf, path) = 0 THEN <<>> ELSE <<rf[RomIndex(rf, path)]>>

Untouched(path) == RowOf(romFiles, path) = RowOf(Pre.rf, path)

ScanRoot == last.arg.root

FilesUnder(root) == {k \in 1..Len(Files) : IsUnder(root, Files[k].path)}

PlatformAt(k) == detectPlatform(ScanRoot, Files[k].path)
IsZipAt(k) == ToLower(Ext(Base(Files[k].path))) = dotZip

\* the file is hashed as a whole: a rom file, or the archive of a
\* zip-is-rom platform
WholeAt(k) ==
  /\ PlatformAt(k) # ""
  /\ isValidExtension(PlatformAt(k), ToLower(Ext(Base(Files[k].path))))
  /\ IsZipAt(k) => PlatformAt(k) \in zipIsRomPlatforms

\* the file is an archive that is opened
OpenedAt(k) ==
  PlatformAt(k) # "" /\ IsZipAt(k) /\ PlatformAt(k) \notin zipIsRomPlatforms

ValidEntries(k) ==
  {j \in 1..Len(Files[k].entries) :
     /\ ~Files[k].entries[j].dir
     /\ isValidExtension(PlatformAt(k), ToLower(Ext(Files[k].entries[j].name)))}

DisplayName(k, j) == Base(Files[k].path) \o <<"/">> \o Files[k].entries[j].name

\* the failures the disk causes in the scan of the root
WalkFails(k) == disk[Files[k].leaf] = NoStat
HashFails(k) == ~WalkFails(k) /\ WholeAt(k) /\ disk[Files[k].leaf] = Unreadable
OpenFails(k) == ~WalkFails(k) /\ OpenedAt(k) /\ disk[Files[k].leaf] = Unreadable
EntryFails(k, j) ==
  /\ OpenedAt(k) /\ disk[Files[k].leaf] \in Contents
  /\ j \in ValidEntries(k)
  /\ disk[Files[k].entries[j].leaf] \notin Contents

DiskErrors ==
  Cardinality({k \in FilesUnder(ScanRoot) :
                 WalkFails(k) \/ HashFails(k) \/ OpenFails(k)})
  + Cardinality({kj \in FilesUnder(ScanRoot) \X (1..4) : EntryFails(kj[1], kj[2])})

\* the row of the file carries the hashes of what disk holds for it now
CurrentAt(k) ==
  /\ RowOf(romFiles, Files[k].path) # <<>>
  /\ RowOf(romFiles, Files[k].path)[1].hash_sha1 = Sha1Of(disk[Files[k].leaf])
  /\ RowOf(romFiles, Files[k].path)[1].platform = PlatformAt(k)

SoundAt(k) == WholeAt(k) /\ disk[Files[k].leaf] \in Contents

\* C24: a scan returns an error exactly when its root is no directory, and
\* then changes nothing.  Otherwise it runs over every file: a file whose
\* walk, hash or archive fails leaves its FileRecord, if any, as it was; a
\* failed archive entry is not the one the archive's FileRecord shows unless
\* it showed it before; the error tally is the number of these failures, plus
\* one when an upsert failed; every sound file but at most the one whose
\* upsert failed has a FileRecord with its present hashes, and that one has
\* its FileRecord as before; and an archive shows its last sound entry.
C24_ScanCompletes ==
  last.op = "ScanFaulty" =>
    /\ last.err = ~IsDir(ScanRoot)
    /\ last.err => (romFiles = Pre.rf /\ last.ret = ZeroResult)
    /\ ~last.err =>
         /\ \A k \in FilesUnder(ScanRoot) :
              /\ (WalkFails(k) \/ HashFails(k) \/ OpenFails(k))
                   => Untouched(Files[k].path)
              /\ \A j \in 1..Len(Files[k].entries) :
                   (/\ EntryFails(k, j)
                    /\ RowOf(romFiles, Files[k].path) # <<>>
                    /\ RowOf(romFiles, Files[k].path)[1].filename = DisplayName(k, j))
                   => Untouched(Files[k].path)
              /\ SoundAt(k) =>
                   \/ CurrentAt(k)
                   \/ last.arg.fail # 0 /\ Untouched(Files[k].path)
              /\ (last.arg.fail = 0 /\ OpenedAt(k) /\ ~WalkFails(k)
                    /\ disk[Files[k].leaf] \in Contents) =>
                   \A j \in ValidEntries(k) :
                     (/\ ~EntryFails(k, j)
                      /\ \A i \in ValidEntries(k) : i > j => EntryFails(k, i))
                     => /\ RowOf(romFiles, Files[k].path) # <<>>
                        /\ RowOf(romFiles, Files[k].path)[1].filename = DisplayName(k, j)
                        /\ RowOf(romFiles, Files[k].path)[1].hash_sha1
                             = Sha1Of(disk[Files[k].entries[j].leaf])
         /\ Cardinality({k \in FilesUnder(ScanRoot) : SoundAt(k) /\ ~CurrentAt(k)}) <= 1
         /\ last.ret.Errors \in {DiskErrors, DiskErrors + 1}
         /\ last.arg.fail = 0 => last.ret.Errors = DiskErrors
         /\ last.ret.Scanned = last.ret.Added + last.ret.Errors
              - Cardinality({k \in FilesUnder(ScanRoot) : WalkFails(k) \/ OpenFails(k)})
         /\ Len(romFiles) >= Len(Pre.rf)

\* y.nes, which had a FileRecord, could not be hashed in a scan of the whole
\* tree: an error, its FileRecord as before, and b.bin, which comes after it
\* in the walk and had no FileRecord, cataloged
C24_Witness ==
  /\ last.op = "ScanFaulty" /\ ~last.err
  /\ last.arg.root = <<cR>>
  /\ disk["y"] = Unreadable
  /\ RowOf(Pre.rf, pathY) # <<>>
  /\ Untouched(pathY)
  /\ RowOf(Pre.rf, pathB) = <<>>
  /\ RowOf(romFiles, pathB) # <<>>
  /\ last.ret.Errors >= 1

----------------------------------------------------------------------------
(* export-gamelist and the re-import of what it wrote *)

\* the characters of the fixture's names in byte order
ByteOrder ==
    <<" ","%","&","-",".","/","0","1","2","3","4","5","6","7","8","9","<",
      ">","A","B","C","D","E","F","G","H","I","J","K","L","M","N","O","P",
      "Q","R","S","T","U","V","W","X","Y","Z","_","a","b","c","d","e","f",
      "g","h","i","j","k","l","m","n","o","p","q","r","s","t","u","v","w",
      "x","y","z">>

\* where a character stands in byte order
ByteRank(ch) == CHOOSE i \in 1..Len(ByteOrder) : ByteOrder[i] = ch

\* a < b in the BINARY collation of ORDER BY: byte by byte, a prefix first
RECURSIVE LessText(_, _)
LessText(a, b) ==
  IF b = <<>> THEN FALSE
  ELSE IF a = <<>> THEN TRUE
  ELSE IF Head(a) # Head(b) THEN ByteRank(Head(a)) < ByteRank(Head(b))
  ELSE LessText(Tail(a), Tail(b))

\* the rows of ids in ORDER BY r.filename, rows of one filename by rowid
RECURSIVE OrderByFilename(_, _)
OrderByFilename(rf, ids) ==
  IF ids = {} THEN <<>>
  ELSE LET first == CHOOSE i \in ids : \A j \in ids \ {i} :
                        \/ LessText(rf[i].filename, rf[j].filename)
                        \/ rf[i].filename = rf[j].filename /\ i < j
       IN <<first>> \o OrderByFilename(rf, ids \ {first})

\* COALESCE(col, '')
CoalesceEmpty(col) == IF col = Null THEN Empty ELSE col

dotZipSlash == <<".","z","i","p","/">>
dotSlash == <<".","/">>

\* COALESCE(g.title_ja, g.title_en, r.filename) over the LEFT JOIN
ExportName(row, gs) ==
  IF row.game_id = NoGame \/ row.game_id > Len(gs) THEN row.filename
  ELSE IF gs[row.game_id].title_ja # Null THEN gs[row.game_id].title_ja
  ELSE IF gs[row.game_id].title_en # Null THEN gs[row.game_id].title_en
  ELSE row.filename

\* "zipname.zip/inner.ext" is cut to "zipname.zip"; the path is "./" + that
ExportPath(filename) ==
  LET idx == IndexOfSub(filename, dotZipSlash)
  IN dotSlash \o (IF idx > 0 THEN SubSeq(filename, 1, idx + 3) ELSE filename)

\* one row of the SELECT of ExportGameList as an ExportGameListEntry
ExportRow(row, gs) ==
  LET g == IF row.game_id = NoGame \/ row.game_id > Len(gs)
           THEN [description_ja |-> Null, release_date |-> Null,
                 developer |-> Null, publisher |-> Null, genre |-> Null,
                 players |-> Null, rating |-> Null]
           ELSE gs[row.game_id]
  IN [Path |-> ExportPath(row.filename), Name |-> ExportName(row, gs),
      Desc |-> CoalesceEmpty(g.description_ja),
      ReleaseDate |-> CoalesceEmpty(g.release_date),
      Developer |-> CoalesceEmpty(g.developer),
      Publisher |-> CoalesceEmpty(g.publisher),
      Genre |-> CoalesceEmpty(g.genre),
      Players |-> CoalesceEmpty(g.players),
      Rating |-> CoalesceEmpty(g.rating)]

\* the rom_files rows ExportGameList reads, in the order it reads them
ExportRows(rf, platform) ==
  OrderByFilename(rf, {i \in 1..Len(rf) : rf[i].platform = platform})

ExportGameList(rf, gs, platform) ==
  LET rows == ExportRows(rf, platform)
  IN [k \in 1..Len(rows) |-> ExportRow(rf[rows[k]], gs)]

\* strings.ReplaceAll(s, old, new) for a one-character old
RECURSIVE ReplaceAll(_, _, _)
ReplaceAll(s, old, new) ==
  IF s = <<>> THEN <<>>
  ELSE (IF Head(s) = old THEN new ELSE <<Head(s)>>) \o ReplaceAll(Tail(s), old, new)

entAmp == <<"&","a","m","p",";">>
entLt == <<"&","l","t",";">>
entGt == <<"&","g","t",";">>
entQuot == <<"&","q","u","o","t",";">>

xmlEscape(s) ==
  ReplaceAll(ReplaceAll(ReplaceAll(ReplaceAll(s, "&", entAmp), "<", entLt),
                        ">", entGt), "\"", entQuot)

\* writeXMLField: the element written for a value, none for the empty value
writeXMLField(tag, value) ==
  IF value = Empty THEN <<>>
  ELSE << [tag |-> tag, text |-> xmlEscape(value)] >>

\* the <game> element cmdExportGameList writes for an entry
gameElement(e) ==
  writeXMLField("path", e.Path) \o writeXMLField("name", e.Name)
  \o writeXMLField("desc", e.Desc)
  \o writeXMLField("releasedate", e.ReleaseDate)
  \o writeXMLField("developer", e.Developer)
  \o writeXMLField("publisher", e.Publisher)
  \o writeXMLField("genre", e.Genre) \o writeXMLField("players", e.Players)
  \o writeXMLField("rating", e.Rating)

\* the gamelist.xml of a platform: the <game> elements in order
gamelistXML(entries) == [k \in 1..Len(entries) |-> gameElement(entries[k])]

\* encoding/xml: the character data of an element, its entities decoded
RECURSIVE xmlText(_)
xmlText(s) ==
  IF s = <<>> THEN <<>>
  ELSE IF HasPrefix(s, entAmp) THEN <<"&">> \o xmlText(SubSeq(s, 6, Len(s)))
  ELSE IF HasPrefix(s, entLt) THEN <<"<">> \o xmlText(SubSeq(s, 5, Len(s)))
  ELSE IF HasPrefix(s, entGt) THEN <<">">> \o xmlText(SubSeq(s, 5, Len(s)))
  ELSE IF HasPrefix(s, entQuot) THEN <<"\"">> \o xmlText(SubSeq(s, 7, Len(s)))
  ELSE <<Head(s)>> \o xmlText(Tail(s))

\* the field of the Game struct a tag decodes into, empty without the tag
xmlField(game, tag) ==
  LET hits == {k \in 1..Len(game) : game[k].tag = tag}
  IN IF hits = {} THEN Empty
     ELSE xmlText(game[CHOOSE k \in hits : \A j \in hits : j <= k].text)

\* filepath.Base of a slash-separated path
RECURSIVE BaseName(_)
BaseName(p) ==
  IF p = <<>> THEN <<".">>
  ELSE IF p = <<"/">> THEN p
  ELSE IF p[Len(p)] = "/" THEN BaseName(SubSeq(p, 1, Len(p) - 1))
  ELSE SubSeq(p, LastIndexOf(p, "/") + 1, Len(p))

\* the GameListEntry ParseGameList makes of one <game>, none without a name
parseGame(game) ==
  LET filename == BaseName(xmlField(game, "path"))
      name == TrimSpace(xmlField(game, "name"))
  IN IF filename # Empty /\ name # Empty
     THEN << [Filename |-> filename, Name |-> name,
              Desc |-> TrimSpace(xmlField(game, "desc")),
              ReleaseDate |-> TrimSpace(xmlField(game, "releasedate")),
              Developer |-> TrimSpace(xmlField(game, "developer")),
              Publisher |-> TrimSpace(xmlField(game, "publisher")),
              Genre |-> TrimSpace(xmlField(game, "genre")),
              Players |-> TrimSpace(xmlField(game, "players")),
              Rating |-> TrimSpace(xmlField(game, "rating"))] >>
     ELSE <<>>

RECURSIVE ParseGameList(_)
ParseGameList(doc) ==
  IF doc = <<>> THEN <<>>
  ELSE parseGame(Head(doc)) \o ParseGameList(Tail(doc))

\* the directory export-gamelist writes a platform's gamelist.xml into
PlatformDir(p) ==
  CASE p = "FC" -> <<"F","C">>
    [] p = "NEOGEO" -> <<"N","E","O","G","E","O">>

tAmp == <<"a","&","<","b",">">>
tQuot == <<"\"","c","\"">>

eZipAmp ==
  [Filename |-> nGzip, Name |-> tN1, Desc |-> tAmp, ReleaseDate |-> Empty,
   Developer |-> tQuot, Publisher |-> Empty, Genre |-> tA, Players |-> Empty,
   Rating |-> Empty]
eNesAmp ==
  [Filename |-> nYnes, Name |-> tAmp, Desc |-> tQuot, ReleaseDate |-> tB,
   Developer |-> Empty, Publisher |-> tAmp, Genre |-> Empty,
   Players |-> tA, Rating |-> Empty]

\* the parsed gamelist.xml files that are imported before an export
ExportLists ==
  { [entries |-> <<eZipAmp>>, platform |-> "FC"],
    [entries |-> <<eNesAmp>>, platform |-> "FC"],
    [entries |-> <<eZipAmp, eNesAmp>>, platform |-> "FC"],
    [entries |-> <<eK>>, platform |-> "NEOGEO"] }

ExportPlatforms == {"FC", "NEOGEO"}

\* romu export-gamelist <output-dir> --platform p: the catalog is only read;
\* no file is written for a platform without rows
ExportGameListCmd(p) ==
  /\ nops < MaxOps
  /\ last' = Done("ExportGameList", p,
                  gamelistXML(ExportGameList(romFiles, games, p)), FALSE, FALSE)
  /\ nops' = nops + 1
  /\ UNCHANGED <<disk, romFiles, games>>

\* romu import-gamelist <output-dir> right after the export: the platform is
\* detected from the lower-cased directory name
ReimportGameList ==
  /\ nops < MaxOps
  /\ last.op = "ExportGameList"
  /\ last.ret # <<>>
  /\ \E platform \in {FolderPlatform(ToLower(PlatformDir(last.arg)))} :
       /\ platform # ""
       /\ \E r \in {MatchByGameList(romFiles, games, ParseGameList(last.ret),
                                   platform, 0)} :
            /\ Len(r.games) <= MaxGames
            /\ romFiles' = r.rf
            /\ games' = r.games
            /\ last' = Done("ReimportGameList",
                            [platform |-> platform, doc |-> last.ret],
                            [created |-> r.created, matched |-> r.matched],
                            r.err, r.fault)
  /\ nops' = nops + 1
  /\ UNCHANGED disk

NextExport ==
  \/ \E root \in Roots : Scan(root)
  \/ \E gl \in ExportLists : ImportGameList(gl, 0)
  \/ \E p \in ExportPlatforms : ExportGameListCmd(p)
  \/ ReimportGameList

\* scans, metadata-list imports, exports and re-imports of an export
ExportSpec == Init /\ [][NextExport]_vars

----------------------------------------------------------------------------
(* C25: export round trip *)

DescriptiveTags ==
  {"name", "desc", "releasedate", "developer", "publisher", "genre",
   "players", "rating"}

\* the stored value a tag of the exported entry stands for
StoredField(g, tag) ==
  CASE tag = "name" -> g.title_ja
    [] tag = "desc" -> g.description_ja
    [] tag = "releasedate" -> g.release_date
    [] tag = "developer" -> g.developer
    [] tag = "publisher" -> g.publisher
    [] tag = "genre" -> g.genre
    [] tag = "players" -> g.players
    [] tag = "rating" -> g.rating

TagsOf(game, tag) == {k \in 1..Len(game) : game[k].tag = tag}

\* the exported entry of a linked FileRecord carries each non-empty field of
\* its GameRecord once and verbatim, and no tag for an empty field
C25_ExportCarriesFields ==
  Ran("ExportGameList") =>
    LET rows == ExportRows(romFiles, last.arg)
    IN /\ Len(last.ret) = Len(rows)
       /\ \A k \in 1..Len(rows) :
            romFiles[rows[k]].game_id # NoGame =>
              \A tag \in DescriptiveTags :
                LET v == StoredField(games[romFiles[rows[k]].game_id], tag)
                IN IF IsEmptyText(v) THEN TagsOf(last.ret[k], tag) = {}
                   ELSE /\ Cardinality(TagsOf(last.ret[k], tag)) = 1
                        /\ xmlField(last.ret[k], tag) = v

\* re-importing the export leaves every linked FileRecord of the platform on
\* its GameRecord and every GameRecord as it was
C25_ReimportKeepsCatalog ==
  Ran("ReimportGameList") /\ ~last.err =>
    /\ \A i \in 1..Len(Pre.rf) :
         Pre.rf[i].platform = last.arg.platform /\ Pre.rf[i].game_id # NoGame
           => romFiles[i].game_id = Pre.rf[i].game_id
    /\ \A g \in 1..Len(Pre.games) : games[g] = Pre.games[g]

\* C25: for a FileRecord linked by metadata-list import, the exported entry
\* carries exactly the non-empty imported field values verbatim, an empty
\* field produces no tag, and re-importing the exported list on the same
\* catalog links the same FileRecords to the same GameRecord and changes no
\* descriptive field
C25_ExportRoundTrip == C25_ExportCarriesFields /\ C25_ReimportKeepsCatalog

----------------------------------------------------------------------------
(* Every kind of command, each with the statements of it that may fail *)

AllDatFiles == { <<dFull2, dFull1>>, <<dCrc, dNone>> }

AllGameLists ==
  { [entries |-> <<eZip, eNes2, eK>>, platform |-> "FC"],
    [entries |-> <<eNes>>, platform |-> "FC"] }

\* the statement of a command that fails: none, the second (a probe), the
\* third (an insert) or the fifth (in the second entry of a metadata list)
FailPoints == {0, 2, 3, 5}

NextAll ==
  \/ \E c \in Contents : WriteFile("y", c)
  \/ \E fail \in FailPoints : ScanWithFaults(<<cR>>, fail)
  \/ \E fail \in FailPoints : ImportDAT(<<dFull2, dFull1>>, fail)
  \/ \E roms \in AllDatFiles, fail \in FailPoints : Match(roms, fail)
  \/ \E gl \in AllGameLists, fail \in FailPoints : ImportGameList(gl, fail)
  \/ Enrich("FC")

AllOpsSpec == Init /\ [][NextAll]_vars

----------------------------------------------------------------------------
(* C27, C28: what no command does to the catalog *)

\* C27: after any command, failed or rolled back ones included, every
\* FileRecord's game link is empty or names a GameRecord that exists; the
\* command deleted no FileRecord and no GameRecord and reset no non-empty
\* game link to empty
C27_CatalogIntegrity ==
  /\ \A i \in 1..Len(romFiles) :
       romFiles[i].game_id = NoGame \/ romFiles[i].game_id \in 1..Len(games)
  /\ Len(romFiles) >= Len(Pre.rf)
  /\ Len(games) >= Len(Pre.games)
  /\ \A i \in 1..Len(Pre.rf) :
       /\ romFiles[i].path = Pre.rf[i].path
       /\ Pre.rf[i].game_id # NoGame => romFiles[i].game_id # NoGame

\* a metadata-list import that created a GameRecord and linked to it before
\* a later statement of it failed
C27_Witness ==
  /\ last.op = "ImportGameList"
  /\ last.err
  /\ \E fail \in FailPoints :
       LET st == gameListLoop(last.arg.entries, last.arg.platform,
                              [rf |-> Pre.rf, games |-> Pre.games, created |-> 0,
                               matched |-> 0, n |-> 0, err |-> FALSE], fail)
       IN /\ st.err
          /\ Len(st.games) > Len(Pre.games)
          /\ \E i \in 1..Len(st.rf) : st.rf[i].game_id > Len(Pre.games)
  /\ \E i \in 1..Len(Pre.rf) : Pre.rf[i].game_id # NoGame

\* C28: a command leaves a non-empty English title as it was and leaves the
\* platform of every GameRecord as it was
C28_TitleStable ==
  \A g \in 1..Len(Pre.games) :
    /\ g <= Len(games)
    /\ ~IsEmptyText(Pre.games[g].title_en)
         => games[g].title_en = Pre.games[g].title_en
    /\ games[g].platform = Pre.games[g].platform

\* an enrichment rewrote fields of a GameRecord that has an English title
C28_Witness ==
  /\ last.op = "Enrich"
  /\ \E g \in 1..Len(Pre.games) :
       /\ ~IsEmptyText(Pre.games[g].title_en)
       /\ games[g] # Pre.games[g]

----------------------------------------------------------------------------
(* C29: scans, checksum-database imports and hash matches only *)

NextHash ==
  \/ \E l \in Writable, c \in Contents : WriteFile(l, c)
  \/ \E root \in Roots : Scan(root)
  \/ \E roms \in DatFiles : ImportDAT(roms, 0)
  \/ \E roms \in DatFiles : Match(roms, 0)

HashSpec == Init /\ [][NextHash]_vars

\* C29: from an empty catalog, after scans, checksum-database imports and
\* hash matches only, no two GameRecords have the same English title and
\* the same platform
C29_TitlesUnique ==
  \A g \in 1..Len(games) : \A h \in 1..Len(games) :
    g # h => ~(/\ games[g].title_en = games[h].title_en
               /\ games[g].platform = games[h].platform)

----------------------------------------------------------------------------
(* C30: metadata lists whose filenames differ in case or hold _ or %       *)

nUpperGzip == <<"G",".","Z","I","P">>
nAnyZip == <<"_",".","z","i","p">>
nPercent == <<"%">>
nQnes == <<"q",".","n","e","s">>

eUpper == GameListEntry(nUpperGzip, tN1, tA, Empty)
eUnderscore == GameListEntry(nAnyZip, tN2, Empty, tA)
ePercent == GameListEntry(nPercent, tN1, tB, Empty)
eMiss == GameListEntry(nQnes, tN2, tA, tA)

LikeLists ==
  { [entries |-> <<eUpper>>, platform |-> "FC"],
    [entries |-> <<eUnderscore>>, platform |-> "FC"],
    [entries |-> <<ePercent>>, platform |-> "FC"],
    [entries |-> <<eMiss, eNes>>, platform |-> "FC"],
    [entries |-> <<eZip, eK>>, platform |-> "NEOGEO"] }

NextLike ==
  \/ \E l \in Writable, c \in Contents : WriteFile(l, c)
  \/ \E root \in Roots : Scan(root)
  \/ \E gl \in LikeLists : ImportGameList(gl, 0)

LikeSpec == Init /\ [][NextLike]_vars

\* the entries of a list that name some rom file of the list's platform
NamingEntries(rf, gl) ==
  {k \in 1..Len(gl.entries) :
     \E i \in 1..Len(rf) : /\ rf[i].platform = gl.platform
                           /\ NamedAs(rf[i].filename, gl.entries[k].Filename)}

\* C30: a metadata-list match links a FileRecord only if it is of the list's
\* platform and its filename is an entry's filename F character for
\* character, ends with / and F or begins with F and /; a difference of
\* letter case or an agreement only at _ or % in F links nothing, and an
\* entry that matches no FileRecord creates no GameRecord
C30_LinksOnlyNamed ==
  Ran("ImportGameList") =>
    /\ \A i \in 1..Len(Pre.rf) :
         romFiles[i].game_id # Pre.rf[i].game_id
           => /\ Pre.rf[i].platform = last.arg.platform
              /\ \E k \in 1..Len(last.arg.entries) :
                   NamedAs(Pre.rf[i].filename, last.arg.entries[k].Filename)
    /\ Len(games) - Len(Pre.games)
         <= Cardinality(NamingEntries(Pre.rf, last.arg))

====
